---- MODULE Spec2Model ----
(***************************************************************************)
(* Agentic-memory core of the semantic router: the Milvus-backed memory    *)
(* stores (the full Store implementation and the retrieval store with      *)
(* bounded retry), over one shared Milvus collection; the memory decision  *)
(* filter of a request; the turn-batched extractor with deduplication.     *)
(*                                                                         *)
(* Strings are sequences of tokens, so that building a filter expression   *)
(* with fmt.Sprintf and evaluating it in the vector database are two       *)
(* different things.  Similarities are integers in hundredths (0.85 = 85). *)
(***************************************************************************)
EXTENDS Integers, Sequences, FiniteSets, TLC

VARIABLES
    rows,      \* the Milvus collection: the set of inserted entities
    now,       \* wall clock (time.Now), in ticks
    lastOp,    \* the last call made to either store, [op, arg]
    lastRes,   \* what that call returned, [err, out]
    cfg,       \* retrieval store: MilvusStore.config / enabled
    rt,        \* retrieval store: the Retrieve call in flight
    ctx,       \* RequestContext: the classification signals of the request
    extractor, \* MemoryExtractor: config, store, dedupConfig
    turnCounts,\* MemoryExtractor.turnCounts: session id -> turns counted
    calls,     \* the ProcessResponse calls running concurrently, and their log
    updating   \* full store: the Update call between its delete and its insert

vars == <<rows, now, lastOp, lastRes, cfg, rt, ctx, extractor, turnCounts, calls, updating>>

(***************************************************************************)
(* Bounds of the model.                                                    *)
(***************************************************************************)
MaxRows == 2
MaxTime == 2

(***************************************************************************)
(* Strings.                                                                *)
(***************************************************************************)
Quote == "\""
Empty == <<>>

UserA == <<"a">>
UserB == <<"b">>
\* the user id   b" || user_id == "a
UserHostile == <<"b", Quote, "||", "user_id", "==", Quote, "a">>

Id1 == <<"mem_1">>
Id2 == <<"mem_2">>
Proj1 == <<"p1">>
Semantic == <<"semantic">>
Episodic == <<"episodic">>
Content1 == <<"c1">>
Content2 == <<"c2">>
Content3 == <<"c3">>
Content4 == <<"c4">>
Content5 == <<"c5">>
Content6 == <<"c6">>
Content7 == <<"c7">>
Query1 == <<"q1">>

Min(a, b) == IF a < b THEN a ELSE b

\* strings.Contains on token strings
Contains(s, p) ==
    \E i \in 0..(Len(s) - Len(p)) : SubSeq(s, i + 1, i + Len(p)) = p

(***************************************************************************)
(* Errors are strings too.  NoErr is nil.                                  *)
(***************************************************************************)
NoErr == <<>>
ErrNotFound == <<"memory not found">>
ErrInvalidUserID == <<"user_id is required">>

\* fmt.Errorf(prefix + ": %w", err)
Wrap(prefix, err) == <<prefix>> \o err

(***************************************************************************)
(* The vector database's boolean expressions.  A filter is the token       *)
(* string the store formats; the database parses it: a string literal runs *)
(* from a quote to the next quote, && binds tighter than ||.               *)
(***************************************************************************)
\* fmt.Sprintf("field == \"%s\"", s)
FmtEq(field, s) == <<field, "==", Quote>> \o s \o <<Quote>>

QuotesBefore(toks, i) == Cardinality({j \in 1..(i - 1) : toks[j] = Quote})
InLiteral(toks, i) ==
    IF toks[i] = Quote THEN FALSE ELSE QuotesBefore(toks, i) % 2 = 1
Depth(toks, i) ==
    Cardinality({j \in 1..(i - 1) : toks[j] = "(" /\ ~InLiteral(toks, j)})
    - Cardinality({j \in 1..(i - 1) : toks[j] = ")" /\ ~InLiteral(toks, j)})
TopLevel(toks, op) ==
    {i \in 1..Len(toks) : toks[i] = op /\ ~InLiteral(toks, i) /\ Depth(toks, i) = 0}
SetMin(S) == CHOOSE x \in S : \A y \in S : x <= y

ScalarFields == {"id", "user_id", "project_id", "memory_type"}

IsComparison(toks) ==
    /\ Len(toks) >= 4
    /\ toks[1] \in ScalarFields
    /\ toks[2] = "=="
    /\ toks[3] = Quote
    /\ toks[Len(toks)] = Quote
    /\ \A j \in 4..(Len(toks) - 1) : toks[j] # Quote

And3(x, y) == IF x = "E" \/ y = "E" THEN "E" ELSE IF x = "T" /\ y = "T" THEN "T" ELSE "F"
Or3(x, y) == IF x = "E" \/ y = "E" THEN "E" ELSE IF x = "T" \/ y = "T" THEN "T" ELSE "F"

\* "T" / "F": the entity matches / does not match; "E": the expression does not parse
RECURSIVE EvalExpr(_, _)
EvalExpr(toks, row) ==
    LET ors == TopLevel(toks, "||")
        ands == TopLevel(toks, "&&")
        n == Len(toks)
    IN  IF ors # {}
        THEN LET i == SetMin(ors)
             IN Or3(EvalExpr(SubSeq(toks, 1, i - 1), row), EvalExpr(SubSeq(toks, i + 1, n), row))
        ELSE IF ands # {}
        THEN LET i == SetMin(ands)
             IN And3(EvalExpr(SubSeq(toks, 1, i - 1), row), EvalExpr(SubSeq(toks, i + 1, n), row))
        ELSE IF n >= 2 /\ toks[1] = "(" /\ toks[n] = ")"
        THEN EvalExpr(SubSeq(toks, 2, n - 1), row)
        ELSE IF IsComparison(toks)
        THEN IF row[toks[1]] = SubSeq(toks, 4, n - 1) THEN "T" ELSE "F"
        ELSE "E"

\* whether an expression parses does not depend on the entity it is evaluated on
NoRow == [id |-> Empty, user_id |-> Empty, project_id |-> Empty, memory_type |-> Empty,
          content |-> Empty, importance |-> 0, created_at |-> 0]
ParseError(toks) == EvalExpr(toks, NoRow) = "E"
Matching(toks, rs) == {r \in rs : EvalExpr(toks, r) = "T"}

(***************************************************************************)
(* The embedding model and the cosine metric: the similarity of a query to *)
(* a stored content is a fixed function of the two texts.                  *)
(***************************************************************************)
Sim(query, content) ==
    CASE query = content -> 100
      [] content = Content1 -> 85
      [] content = Content2 -> 60
      [] content = Content3 -> 45
      [] content = Content4 -> 90
      [] content = Content5 -> 80
      [] content = Content6 -> 75
      [] content = Content7 -> 72
      [] OTHER -> 0

(***************************************************************************)
(* client.Search: the entities matching the filter, best similarity first, *)
(* at most topK of them.  The order among equal similarities is the        *)
(* database's choice, so Search is the set of hit lists it may return.     *)
(***************************************************************************)
RECURSIVE Ranked(_, _)
Ranked(M, query) ==
    IF M = {} THEN {<<>>}
    ELSE LET best == CHOOSE x \in {Sim(query, r.content) : r \in M} :
                         \A r \in M : Sim(query, r.content) <= x
             top == {r \in M : Sim(query, r.content) = best}
         IN  UNION {{<<[row |-> r, score |-> best]>> \o t : t \in Ranked(M \ {r}, query)} :
                        r \in top}

MilvusSearch(rs, filter, query, topK) ==
    {SubSeq(h, 1, Min(Len(h), topK)) : h \in Ranked(Matching(filter, rs), query)}

\* the database rejects an expression it cannot parse and a topK below 1
SearchRejected(filter, topK) == ParseError(filter) \/ topK < 1

\* client.Delete(filter): every matching entity is removed
MilvusDelete(rs, filter) == rs \ Matching(filter, rs)

\* client.Insert: the primary key is not checked, an entity is added
MilvusInsert(rs, row) == rs \cup {row}

RpcError == <<"rpc", "error">>

(***************************************************************************)
(* The full store (MilvusStore implementing Store).                        *)
(***************************************************************************)
\* DefaultMilvusConfig
MilvusTopK == 10
MilvusSimilarityThreshold == 70

\* a Memory as its caller holds it
Mem(id, user, project, type, content) ==
    [id |-> id, user_id |-> user, project_id |-> project, memory_type |-> type,
     content |-> content, importance |-> 0, source |-> Empty,
     created_at |-> 0, updated_at |-> 0, accessed_at |-> 0]

\* the columns Store inserts; the importance in hundredths
RowOf(m) ==
    [id |-> m.id, user_id |-> m.user_id, project_id |-> m.project_id,
     memory_type |-> m.memory_type, content |-> m.content,
     importance |-> m.importance, created_at |-> m.created_at]

\* the Memory that Get and Retrieve rebuild from the columns they ask for
MemOfRow(r) ==
    [id |-> r.id, user_id |-> r.user_id, project_id |-> r.project_id,
     memory_type |-> r.memory_type, content |-> r.content,
     importance |-> r.importance, source |-> Empty, created_at |-> r.created_at,
     updated_at |-> 0, accessed_at |-> 0]

ZeroMem == Mem(Empty, Empty, Empty, Empty, Empty)

\* MilvusStore.Store: [rows, err, mem]; fail names the backend call that fails:
\* "embed" (GetEmbedding errs or returns an empty vector), "insert", or "none"
StoreOp(rs, m, t, newId, fail) ==
    IF m.user_id = Empty
    THEN [rows |-> rs, err |-> ErrInvalidUserID, mem |-> m]
    ELSE LET m1 == [m EXCEPT !.id = IF m.id = Empty THEN newId ELSE m.id,
                             !.created_at = IF m.created_at = 0 THEN t ELSE m.created_at,
                             !.accessed_at = t]
         IN  IF fail = "embed"
             THEN [rows |-> rs, err |-> Wrap("failed to generate embedding", RpcError), mem |-> m1]
             ELSE IF fail = "insert"
             THEN [rows |-> rs, err |-> Wrap("failed to insert memory", RpcError), mem |-> m1]
             ELSE [rows |-> MilvusInsert(rs, RowOf(m1)), err |-> NoErr, mem |-> m1]

\* MilvusStore.Forget: [rows, err]
ForgetOp(rs, id, fail) ==
    LET filter == FmtEq("id", id)
    IN  IF fail = "delete" \/ ParseError(filter)
        THEN [rows |-> rs, err |-> Wrap("forget failed", RpcError)]
        ELSE [rows |-> MilvusDelete(rs, filter), err |-> NoErr]

\* MilvusStore.Update: delete, then re-insert under the same id
UpdateOp(rs, id, m, t, newId, failForget, failStore) ==
    LET f == ForgetOp(rs, id, failForget)
    IN  IF f.err # NoErr /\ f.err # ErrNotFound
        THEN [rows |-> f.rows, err |-> f.err, mem |-> m]
        ELSE StoreOp(f.rows, [m EXCEPT !.id = id], t, newId, failStore)

\* the filter of MilvusStore.ForgetByScope; Empty when the scope names nothing
RECURSIVE JoinWith(_, _)
JoinWith(sep, parts) ==
    IF parts = <<>> THEN <<>>
    ELSE IF Len(parts) = 1 THEN parts[1]
    ELSE parts[1] \o <<sep>> \o JoinWith(sep, Tail(parts))

\* ForgetByScope comparing the project id with the user_id field
ScopeFilterWrongField(scope) ==
    JoinWith("&&",
        (IF scope.user_id # Empty THEN <<FmtEq("user_id", scope.user_id)>> ELSE <<>>)
        \o (IF scope.project_id # Empty THEN <<FmtEq("user_id", scope.project_id)>> ELSE <<>>)
        \o (IF scope.memory_type # Empty THEN <<FmtEq("memory_type", scope.memory_type)>> ELSE <<>>))

ScopeFilter(scope) ==
    JoinWith("&&",
        (IF scope.user_id # Empty THEN <<FmtEq("user_id", scope.user_id)>> ELSE <<>>)
        \o (IF scope.project_id # Empty THEN <<FmtEq("project_id", scope.project_id)>> ELSE <<>>)
        \o (IF scope.memory_type # Empty THEN <<FmtEq("memory_type", scope.memory_type)>> ELSE <<>>))

\* MilvusStore.ForgetByScope: [rows, err]
ForgetByScopeOp(rs, scope, fail) ==
    LET filter == ScopeFilter(scope)
    IN  IF filter = Empty
        THEN [rows |-> rs, err |-> NoErr]
        ELSE IF fail = "delete" \/ ParseError(filter)
        THEN [rows |-> rs, err |-> Wrap("forget by scope failed", RpcError)]
        ELSE [rows |-> MilvusDelete(rs, filter), err |-> NoErr]

\* the memory_type disjunction both stores format
RECURSIVE TypeFilter(_)
TypeFilter(types) ==
    IF Len(types) = 1 THEN FmtEq("memory_type", types[1])
    ELSE FmtEq("memory_type", types[1]) \o <<"||">> \o TypeFilter(Tail(types))

\* the filter of the full store's Retrieve
RetrieveFilter(opts) ==
    FmtEq("user_id", opts.user_id)
    \o (IF opts.project_id # Empty THEN <<"&&">> \o FmtEq("project_id", opts.project_id) ELSE <<>>)
    \o (IF opts.types # <<>> THEN <<"&&", "(">> \o TypeFilter(opts.types) \o <<")">> ELSE <<>>)

\* topK of the full store's Retrieve
RetrieveTopK(opts) == IF opts.limit <= 0 THEN MilvusTopK ELSE opts.limit

\* the threshold of the full store's Retrieve
RetrieveThreshold(opts) ==
    IF opts.threshold <= 0 THEN MilvusSimilarityThreshold ELSE opts.threshold

\* the result loop of the full store's Retrieve
RECURSIVE ExtractResults(_, _, _, _)
ExtractResults(hits, i, threshold, results) ==
    IF i > Len(hits) THEN results
    ELSE IF hits[i].score < threshold
    THEN ExtractResults(hits, i + 1, threshold, results)
    ELSE ExtractResults(hits, i + 1, threshold,
            Append(results, [memory |-> MemOfRow(hits[i].row), relevance |-> hits[i].score]))

\* MilvusStore.Retrieve of the full store: the set of [err, out] it may return
RetrieveOp(rs, opts, fail) ==
    IF opts.user_id = Empty
    THEN {[err |-> ErrInvalidUserID, out |-> <<>>]}
    ELSE IF fail = "embed"
    THEN {[err |-> Wrap("failed to generate query embedding", RpcError), out |-> <<>>]}
    ELSE IF fail = "search" \/ SearchRejected(RetrieveFilter(opts), RetrieveTopK(opts))
    THEN {[err |-> Wrap("search failed", RpcError), out |-> <<>>]}
    ELSE {[err |-> NoErr, out |-> ExtractResults(h, 1, RetrieveThreshold(opts), <<>>)] :
            h \in MilvusSearch(rs, RetrieveFilter(opts), opts.query, RetrieveTopK(opts))}

\* client.Query finding nothing: no column at all, or the columns asked for, empty
QueryEmptyShapes == {"none", "columns"}

\* MilvusStore.Get: the set of [err, out] it may return
GetOp(rs, id, fail, shape) ==
    LET filter == FmtEq("id", id)
        found == Matching(filter, rs)
    IN  IF fail = "query" \/ ParseError(filter)
        THEN {[err |-> Wrap("query failed", RpcError), out |-> ZeroMem]}
        ELSE IF found = {}
        THEN IF shape = "none"
             THEN {[err |-> ErrNotFound, out |-> ZeroMem]}
             ELSE {[err |-> NoErr, out |-> ZeroMem]}
        ELSE {[err |-> NoErr, out |-> MemOfRow(r)] : r \in found}

(***************************************************************************)
(* The retrieval store (MilvusStore of milvus_store.go): Retrieve with     *)
(* a similarity threshold and a bounded retry of the search.               *)
(***************************************************************************)
DefaultMaxRetries == 3
DefaultRetryBaseDelay == 100

DefaultRetrievalLimit == 5
DefaultSimilarityThreshold == 60

DefaultMemoryConfig ==
    [model |-> <<"all-MiniLM-L6-v2">>, limit |-> DefaultRetrievalLimit,
     threshold |-> DefaultSimilarityThreshold]

\* NewMilvusStore, given a client and a collection name: enabled and config
NewMilvusStore(options) ==
    IF ~options.enabled
    THEN [enabled |-> FALSE, model |-> Empty, limit |-> 0, threshold |-> 0]
    ELSE LET config == IF options.config.model = Empty
                       THEN DefaultMemoryConfig ELSE options.config
         IN  [enabled |-> TRUE, model |-> config.model, limit |-> config.limit,
              threshold |-> config.threshold]

\* strings.ToLower, on the words the search errors are made of
ToLowerWord(w) ==
    CASE w = "Service" -> "service"
      [] w = "Unavailable" -> "unavailable"
      [] w = "Connection" -> "connection"
      [] w = "What" -> "what"
      [] w = "Tell" -> "tell"
      [] w = "I" -> "i"
      [] w = "MY" -> "my"
      [] w = "Which" -> "which"
      [] w = "Search" -> "search"
      [] w = "How" -> "how"
      [] w = "The" -> "the"
      [] w = "Hi" -> "hi"
      [] w = "Hello" -> "hello"
      [] w = "Hey" -> "hey"
      [] w = "Thanks" -> "thanks"
      [] w = "Good" -> "good"
      [] w = "Morning" -> "morning"
      [] w = "Sup" -> "sup"
      [] w = "Semantic" -> "semantic"
      [] OTHER -> w
ToLower(str) == [i \in 1..Len(str) |-> ToLowerWord(str[i])]

transientPatterns ==
    {<<"connection">>, <<"timeout">>, <<"deadline", "exceeded">>,
     <<"context", "deadline", "exceeded">>, <<"unavailable">>, <<"temporary">>,
     <<"retry">>, <<"rate", "limit">>, <<"too", "many", "requests">>,
     <<"server", "error">>, <<"internal", "error">>, <<"service", "unavailable">>,
     <<"network">>, <<"broken", "pipe">>, <<"connection", "reset">>,
     <<"no", "connection">>, <<"connection", "refused">>}

\* isTransientError taking every error for a transient one
isTransientAny(err) == err # NoErr

isTransientError(err) ==
    /\ err # NoErr
    /\ \E pattern \in transientPatterns : Contains(ToLower(err), pattern)

\* retryWithBackoff giving up one attempt early
retryReturnsEarly(attempt, lastErr) ==
    \/ lastErr = NoErr
    \/ ~isTransientError(lastErr)
    \/ attempt = DefaultMaxRetries - 2

\* retryWithBackoff, after operation() returned lastErr in this attempt:
\* TRUE when it returns lastErr, FALSE when it goes on to wait
retryReturns(attempt, lastErr) ==
    \/ lastErr = NoErr
    \/ ~isTransientError(lastErr)
    \/ attempt = DefaultMaxRetries - 1

\* a backoff of the base delay at every attempt
retryDelayConstant(attempt) == DefaultRetryBaseDelay

\* retryBaseDelay * 2^attempt, in milliseconds
retryDelay(attempt) == DefaultRetryBaseDelay * (2 ^ attempt)

\* ctx.Err() of a cancelled context
CtxCanceled == <<"context", "canceled">>

retryLimit(config, opts) == IF opts.limit <= 0 THEN config.limit ELSE opts.limit
\* the threshold taken from the request alone, without the configured default
retryThresholdNoDefault(config, opts) == opts.threshold

retryThreshold(config, opts) ==
    IF opts.threshold <= 0 THEN config.threshold ELSE opts.threshold

filterExpr(opts) ==
    FmtEq("user_id", opts.user_id)
    \o (IF Len(opts.types) > 0
        THEN <<"&&", "(">> \o TypeFilter(opts.types) \o <<")">> ELSE <<>>)

searchTopK(limit) == IF limit * 4 < 20 THEN 20 ELSE limit * 4

\* the result loop: stop at limit results, skip scores below the threshold,
\* keep a hit only when it has an id and a content
RECURSIVE processResults(_, _, _, _, _)
processResults(hits, i, limit, threshold, results) ==
    IF ~(i <= Len(hits) /\ Len(results) < limit) THEN results
    ELSE IF hits[i].score < threshold
    THEN processResults(hits, i + 1, limit, threshold, results)
    ELSE LET result == [id |-> hits[i].row.id, content |-> hits[i].row.content,
                        memory_type |-> hits[i].row.memory_type,
                        similarity |-> hits[i].score]
         IN  processResults(hits, i + 1, limit, threshold,
                 IF result.id # Empty /\ result.content # Empty
                 THEN Append(results, result) ELSE results)

(***************************************************************************)
(* The request context and the memory extractor, as constructed.           *)
(***************************************************************************)
Session1 == <<"s1">>
Session2 == <<"s2">>
Sessions == {Session1, Session2}

\* &RequestContext{}
RequestContext(factCheckNeeded, hasTools) ==
    [FactCheckNeeded |-> factCheckNeeded, HasToolsForFactCheck |-> hasTools,
     MemoryContext |-> Empty]

\* config.ExtractionConfig
ExtractionConfig(enabled, endpoint, batchSize) ==
    [enabled |-> enabled, endpoint |-> endpoint, batch_size |-> batchSize]

\* DefaultDeduplicationConfig
HighSimilarity == 85
GraySimilarity == 60
DefaultDeduplicationConfig ==
    [high_similarity |-> HighSimilarity, gray_similarity |-> GraySimilarity]

\* NewMemoryExtractorWithStore; store_enabled is e.store != nil && e.store.IsEnabled()
NewMemoryExtractorWithStore(config, storeEnabled) ==
    [config |-> config, store_enabled |-> storeEnabled,
     dedupConfig |-> DefaultDeduplicationConfig]

\* make(map[string]int): a session not in the map reads 0
NoTurns == [s \in Sessions |-> 0]

(***************************************************************************)
(* The calls a client makes, one at a time.                                *)
(***************************************************************************)
\* the ProcessResponse calls that may run at the same time
MaxCalls == 3
CallIds == 1..MaxCalls

\* a call that has not started: its position, session, the turn count it
\* read, the facts it extracted and has still to store, and the result of
\* the deduplication check it is acting on
IdleCall ==
    [pc |-> "idle", session |-> Empty, turnCount |-> 0, facts |-> <<>>, dedup |-> <<>>]

\* no call running, nothing logged
NoCalls == [proc |-> [c \in CallIds |-> IdleCall], log |-> <<>>]

\* no Update is between its two halves; else the id and the memory it was
\* called with, and whether a memory was stored under the id when it began
NoUpdate == [pc |-> "idle", id |-> Empty, mem |-> ZeroMem, existed |-> FALSE]

\* the retrieval store has no call in flight
RtIdle ==
    [pc |-> "idle", opts |-> <<>>, limit |-> 0, threshold |-> 0, filter |-> <<>>,
     topK |-> 0, attempt |-> 0, calls |-> 0, errs |-> <<>>, waits |-> <<>>,
     cancelled |-> FALSE]

MemInputs ==
    {Mem(Id1, UserA, Proj1, Semantic, Content1),
     Mem(Id1, UserA, Proj1, Semantic, Content2),
     Mem(Id2, UserB, Proj1, Semantic, Content1),
     Mem(Id2, UserA, Empty, Episodic, Content2),
     Mem(Empty, UserA, Proj1, Semantic, Content1),
     Mem(Id1, Empty, Proj1, Semantic, Content1)}

UpdateInputs ==
    {Mem(Id1, UserA, Proj1, Semantic, Content2),
     Mem(Id1, Empty, Proj1, Semantic, Content1)}

IdInputs == {Id1, Id2}

\* "mem_" + uuid.New().String()[:8]
GeneratedIds == {<<"mem_", "uuid1">>}
FreshIds == GeneratedIds \ {r.id : r \in rows}

Scope(u, p, t) == [user_id |-> u, project_id |-> p, memory_type |-> t]

ScopeInputs ==
    {Scope(UserA, Empty, Empty), Scope(UserB, Empty, Empty),
     Scope(UserA, Proj1, Empty), Scope(UserA, Empty, Semantic),
     Scope(Empty, Proj1, Empty), Scope(Empty, Empty, Empty),
     Scope(UserHostile, Empty, Empty)}

Opts(q, u, p, ts, l, th) ==
    [query |-> q, user_id |-> u, project_id |-> p, types |-> ts,
     limit |-> l, threshold |-> th]

RetrieveInputs ==
    {Opts(Query1, UserA, Empty, <<>>, 0, 0),
     Opts(Query1, UserA, Empty, <<>>, 1, 0),
     Opts(Query1, UserA, Proj1, <<Semantic>>, 1, 60),
     Opts(Query1, UserA, Empty, <<Semantic, Episodic>>, 0, 60),
     Opts(Query1, UserB, Empty, <<>>, 0, 0),
     Opts(Query1, UserB, Proj1, <<>>, 1, 0),
     Opts(Query1, UserHostile, Empty, <<>>, 0, 0),
     Opts(Query1, Empty, Empty, <<>>, 0, 0)}

Store(m, fail) ==
    /\ rt.pc = "idle"
    /\ \E newId \in FreshIds :
        LET r == StoreOp(rows, m, now, newId, fail)
        IN  /\ Cardinality(r.rows) <= MaxRows
            /\ rows' = r.rows
            /\ lastOp' = [op |-> "Store", arg |-> r.mem]
            /\ lastRes' = [err |-> r.err, out |-> <<>>]
    /\ UNCHANGED <<now, cfg, rt, ctx, extractor, turnCounts, calls, updating>>

Update(id, m, failForget, failStore) ==
    /\ rt.pc = "idle"
    /\ \E newId \in FreshIds :
        LET r == UpdateOp(rows, id, m, now, newId, failForget, failStore)
        IN  /\ Cardinality(r.rows) <= MaxRows
            /\ rows' = r.rows
            /\ lastOp' = [op |-> "Update", arg |-> [id |-> id, mem |-> m]]
            /\ lastRes' = [err |-> r.err, out |-> r.mem]
    /\ UNCHANGED <<now, cfg, rt, ctx, extractor, turnCounts, calls, updating>>

Forget(id, fail) ==
    /\ rt.pc = "idle"
    /\ LET r == ForgetOp(rows, id, fail)
       IN  /\ rows' = r.rows
           /\ lastOp' = [op |-> "Forget", arg |-> id, removed |-> rows \ r.rows]
           /\ lastRes' = [err |-> r.err, out |-> <<>>]
    /\ UNCHANGED <<now, cfg, rt, ctx, extractor, turnCounts, calls, updating>>

ForgetByScope(scope, fail) ==
    /\ rt.pc = "idle"
    /\ LET r == ForgetByScopeOp(rows, scope, fail)
       IN  /\ rows' = r.rows
           /\ lastOp' = [op |-> "ForgetByScope", arg |-> scope, removed |-> rows \ r.rows]
           /\ lastRes' = [err |-> r.err, out |-> <<>>]
    /\ UNCHANGED <<now, cfg, rt, ctx, extractor, turnCounts, calls, updating>>

Get(id, fail, shape) ==
    /\ rt.pc = "idle"
    /\ \E r \in GetOp(rows, id, fail, shape) :
        /\ lastOp' = [op |-> "Get", arg |-> id]
        /\ lastRes' = r
    /\ UNCHANGED <<rows, now, cfg, rt, ctx, extractor, turnCounts, calls, updating>>

Retrieve(opts, fail) ==
    /\ rt.pc \in {"idle", "done"}
    /\ \E r \in RetrieveOp(rows, opts, fail) :
        /\ lastOp' = [op |-> "Retrieve", arg |-> opts]
        /\ lastRes' = r
    /\ rt' = RtIdle
    /\ UNCHANGED <<rows, now, cfg, ctx, extractor, turnCounts, calls, updating>>

Tick ==
    /\ now < MaxTime
    /\ now' = now + 1
    /\ UNCHANGED <<rows, lastOp, lastRes, cfg, rt, ctx, extractor, turnCounts, calls, updating>>

Init ==
    /\ rows = {}
    /\ now = 1
    /\ lastOp = [op |-> "none", arg |-> <<>>]
    /\ lastRes = [err |-> NoErr, out |-> <<>>]
    /\ cfg = NewMilvusStore([enabled |-> TRUE, config |-> [model |-> Empty, limit |-> 0, threshold |-> 0]])
    /\ rt = RtIdle
    /\ ctx = RequestContext(FALSE, FALSE)
    /\ extractor = NewMemoryExtractorWithStore(ExtractionConfig(FALSE, Empty, 0), TRUE)
    /\ turnCounts = NoTurns
    /\ calls = NoCalls
    /\ updating = NoUpdate

Next ==
    \/ \E m \in MemInputs, fail \in {"none", "embed", "insert"} : Store(m, fail)
    \/ \E id \in IdInputs, m \in UpdateInputs, ff \in {"none", "delete"},
          fs \in {"none", "insert"} : Update(id, m, ff, fs)
    \/ \E id \in IdInputs, fail \in {"none", "delete"} : Forget(id, fail)
    \/ \E scope \in ScopeInputs, fail \in {"none", "delete"} : ForgetByScope(scope, fail)
    \/ \E id \in IdInputs, fail \in {"none", "query"}, shape \in QueryEmptyShapes :
          Get(id, fail, shape)
    \/ \E opts \in RetrieveInputs, fail \in {"none", "embed", "search"} : Retrieve(opts, fail)
    \/ Tick

Spec == Init /\ [][Next]_vars

(***************************************************************************)
(* Retrieve of the retrieval store, one step per search attempt and per    *)
(* backoff wait, over a collection the full store has filled.              *)
(***************************************************************************)
Id3 == <<"mem_3">>
Id4 == <<"mem_4">>
Id5 == <<"mem_5">>
Id6 == <<"mem_6">>

Row(id, user, project, type, content, created) ==
    RowOf([Mem(id, user, project, type, content) EXCEPT !.created_at = created])

Collections ==
    {{},
     {Row(Id1, UserA, Proj1, Semantic, Content1, 2),
      Row(Id2, UserA, Proj1, Semantic, Content1, 1),
      Row(Id3, UserA, Empty, Episodic, Content2, 1),
      Row(Id4, UserA, Proj1, Semantic, Content3, 1),
      Row(Id5, UserB, Proj1, Semantic, Content1, 1)},
     {Row(Id1, UserA, Proj1, Semantic, Content4, 1),
      Row(Id2, UserA, Proj1, Semantic, Content1, 1),
      Row(Id3, UserA, Proj1, Semantic, Content1, 2),
      Row(Id4, UserA, Proj1, Semantic, Content5, 1),
      Row(Id5, UserA, Proj1, Semantic, Content6, 2),
      Row(Id6, UserA, Proj1, Semantic, Content7, 2)}}

OptionInputs ==
    {[enabled |-> FALSE, config |-> [model |-> Empty, limit |-> 0, threshold |-> 0]],
     [enabled |-> TRUE, config |-> [model |-> Empty, limit |-> 0, threshold |-> 0]],
     [enabled |-> TRUE, config |-> [model |-> <<"bert">>, limit |-> 2, threshold |-> 50]]}

RetryInputs ==
    {Opts(Query1, UserA, Empty, <<>>, 0, 0),
     Opts(Query1, UserA, Empty, <<>>, 1, 60),
     Opts(Query1, UserA, Empty, <<Semantic>>, 3, 80),
     Opts(Query1, UserA, Proj1, <<Semantic, Episodic>>, 0, 0),
     Opts(Query1, UserB, Empty, <<>>, 0, 0),
     Opts(Query1, UserHostile, Empty, <<>>, 0, 0),
     Opts(Query1, Empty, Empty, <<>>, 0, 0),
     Opts(Empty, Empty, Empty, <<>>, 0, 0)}

ErrConnectionTimeout == <<"connection", "timeout">>
ErrServiceUnavailable == <<"Service", "Unavailable">>
ErrInvalidSchema == <<"invalid", "schema">>
ErrInvalidExpr == <<"invalid", "expression">>

\* what one client.Search call may return: hits (NoErr) or an error
SearchOutcomes ==
    {NoErr, ErrConnectionTimeout, ErrServiceUnavailable, ErrInvalidSchema, CtxCanceled}

RetrieveBegin(opts, cancelled, failEmbed) ==
    /\ rt.pc \in {"idle", "done"}
    /\ LET limit == retryLimit(cfg, opts)
           early == IF ~cfg.enabled THEN <<"milvus store is not enabled">>
                    ELSE IF opts.query = Empty THEN <<"Query is required">>
                    ELSE IF opts.user_id = Empty THEN <<"User id is required">>
                    ELSE IF failEmbed THEN Wrap("Failed to generate embedding", RpcError)
                    ELSE NoErr
           call == [pc |-> IF early = NoErr THEN "rpc" ELSE "done", opts |-> opts,
                    limit |-> limit, threshold |-> retryThreshold(cfg, opts),
                    filter |-> filterExpr(opts), topK |-> searchTopK(limit),
                    attempt |-> 0, calls |-> 0, errs |-> <<>>, waits |-> <<>>,
                    cancelled |-> cancelled]
       IN  /\ rt' = call
           /\ lastOp' = [op |-> "RetrieveWithRetry", arg |-> opts]
           /\ lastRes' = [err |-> early, out |-> <<>>]
    /\ UNCHANGED <<rows, now, cfg, ctx, extractor, turnCounts, calls, updating>>

SearchAttempt(outcome) ==
    /\ rt.pc = "rpc"
    /\ LET err == IF outcome = NoErr /\ SearchRejected(rt.filter, rt.topK)
                  THEN ErrInvalidExpr ELSE outcome
           r1 == [rt EXCEPT !.calls = @ + 1, !.errs = Append(@, err)]
       IN  IF err = NoErr
           THEN \E hits \in MilvusSearch(rows, rt.filter, rt.opts.query, rt.topK) :
                    /\ rt' = [r1 EXCEPT !.pc = "done"]
                    /\ lastRes' = [err |-> NoErr,
                                   out |-> processResults(hits, 1, rt.limit, rt.threshold, <<>>)]
           ELSE IF retryReturns(rt.attempt, err)
           THEN /\ rt' = [r1 EXCEPT !.pc = "done"]
                /\ lastRes' = [err |-> Wrap("Milvus search failed after retries", err),
                               out |-> <<>>]
           ELSE /\ rt' = [r1 EXCEPT !.pc = "backoff",
                                    !.waits = Append(@, retryDelay(rt.attempt))]
                /\ UNCHANGED lastRes
    /\ UNCHANGED <<rows, now, cfg, lastOp, ctx, extractor, turnCounts, calls, updating>>

\* the backoff wait without the ctx.Done() case
BackoffElapsedIgnoringCtx ==
    /\ rt.pc = "backoff"
    /\ rt' = [rt EXCEPT !.pc = "rpc", !.attempt = @ + 1]
    /\ UNCHANGED <<rows, now, cfg, lastOp, lastRes, ctx, extractor, turnCounts, calls, updating>>

\* time.After(delay) fires while the context is live
BackoffElapsed ==
    /\ rt.pc = "backoff"
    /\ ~rt.cancelled
    /\ rt' = [rt EXCEPT !.pc = "rpc", !.attempt = @ + 1]
    /\ UNCHANGED <<rows, now, cfg, lastOp, lastRes, ctx, extractor, turnCounts, calls, updating>>

\* ctx.Done() is closed before the delay is over
BackoffCancelled ==
    /\ rt.pc = "backoff"
    /\ rt.cancelled
    /\ rt' = [rt EXCEPT !.pc = "done"]
    /\ lastRes' = [err |-> Wrap("Milvus search failed after retries",
                               Wrap("context cancelled during retry", CtxCanceled)),
                   out |-> <<>>]
    /\ UNCHANGED <<rows, now, cfg, lastOp, ctx, extractor, turnCounts, calls, updating>>

\* the caller cancels the context of the call in flight
CancelContext ==
    /\ rt.pc \in {"rpc", "backoff"}
    /\ ~rt.cancelled
    /\ rt' = [rt EXCEPT !.cancelled = TRUE]
    /\ UNCHANGED <<rows, now, cfg, lastOp, lastRes, ctx, extractor, turnCounts, calls, updating>>

InitRetry ==
    /\ rows \in Collections
    /\ now = MaxTime
    /\ lastOp = [op |-> "none", arg |-> <<>>]
    /\ lastRes = [err |-> NoErr, out |-> <<>>]
    /\ cfg \in {NewMilvusStore(options) : options \in OptionInputs}
    /\ rt = RtIdle
    /\ ctx = RequestContext(FALSE, FALSE)
    /\ extractor = NewMemoryExtractorWithStore(ExtractionConfig(FALSE, Empty, 0), TRUE)
    /\ turnCounts = NoTurns
    /\ calls = NoCalls
    /\ updating = NoUpdate

NextRetry ==
    \/ \E opts \in RetryInputs, cancelled \in BOOLEAN, failEmbed \in BOOLEAN :
          RetrieveBegin(opts, cancelled, failEmbed)
    \/ \E outcome \in SearchOutcomes : SearchAttempt(outcome)
    \/ BackoffElapsed
    \/ BackoffCancelled
    \/ CancelContext
    \/ \E opts \in RetrieveInputs, fail \in {"none", "embed", "search"} : Retrieve(opts, fail)

SpecRetry == InitRetry /\ [][NextRetry]_vars

(***************************************************************************)
(* The memory decision filter.  A query is its sequence of tokens: each    *)
(* maximal run of word characters is one token, every other character is   *)
(* a token of its own.                                                     *)
(***************************************************************************)
\* \s of the regular expressions, and what strings.TrimSpace strips
WhiteSpace == {" ", "\t", "\n"}

\* personalPronounPattern: the alternatives between the two \b
personalPronounPattern ==
    {<<"my">>, <<"i">>, <<"me">>, <<"mine">>, <<"i", "'", "m">>, <<"i", "'", "ve">>,
     <<"i", "'", "ll">>, <<"i", "'", "d">>, <<"myself">>}

ContainsPersonalPronoun(query) ==
    \E alt \in personalPronounPattern : Contains(ToLower(query), alt)

\* the items of an anchored pattern: one token, an optional token, a class
\* repeated zero or more times, a class repeated one or more times
Lit(tok) == [kind |-> "lit", tok |-> tok, set |-> {}]
Opt(tok) == [kind |-> "opt", tok |-> tok, set |-> {}]
Star(set) == [kind |-> "star", tok |-> "", set |-> set]
Plus(set) == [kind |-> "plus", tok |-> "", set |-> set]

\* regexp.MatchString of ^pat$ from token i of s and item j of pat
RECURSIVE MatchFrom(_, _, _, _)
MatchFrom(s, i, pat, j) ==
    IF j > Len(pat) THEN i > Len(s)
    ELSE LET it == pat[j]
             here == i <= Len(s)
         IN  CASE it.kind = "lit" ->
                    here /\ s[i] = it.tok /\ MatchFrom(s, i + 1, pat, j + 1)
               [] it.kind = "opt" ->
                    \/ MatchFrom(s, i, pat, j + 1)
                    \/ here /\ s[i] = it.tok /\ MatchFrom(s, i + 1, pat, j + 1)
               [] it.kind = "star" ->
                    \/ MatchFrom(s, i, pat, j + 1)
                    \/ here /\ s[i] \in it.set /\ MatchFrom(s, i + 1, pat, j)
               [] it.kind = "plus" ->
                    /\ here /\ s[i] \in it.set
                    /\ MatchFrom(s, i + 1, pat, j) \/ MatchFrom(s, i + 1, pat, j + 1)

\* [\s\!\.\,]* and [\s\!\?\.\,]*
GreetingTail == Star(WhiteSpace \cup {"!", ".", ","})
HailTail == Star(WhiteSpace \cup {"!", "?", ".", ","})

\* greetingPatterns, each alternation written out
greetingPatterns ==
    {<<Lit(w), GreetingTail>> : w \in {"hi", "hello", "hey", "howdy"}}
    \cup {<<Lit(w), Star(WhiteSpace \cup {","}), Opt("there"), GreetingTail>> :
            w \in {"hi", "hello", "hey"}}
    \cup {<<Lit(w), GreetingTail>> : w \in {"hithere", "hellothere", "heythere"}}
    \cup {<<Lit(w), GreetingTail>> : w \in {"morning", "afternoon", "evening", "night"}}
    \cup {<<Lit("good"), Plus(WhiteSpace), Lit(w), GreetingTail>> :
            w \in {"morning", "afternoon", "evening", "night"}}
    \cup {<<Lit(w), GreetingTail>> : w \in {"thanks", "thx", "bye", "goodbye", "later"}}
    \cup {<<Lit("thank"), Plus(WhiteSpace), Lit("you"), GreetingTail>>,
          <<Lit("see"), Plus(WhiteSpace), Lit("you"), GreetingTail>>}
    \cup {<<Lit(w), GreetingTail>> : w \in {"ok", "okay", "sure", "yes", "no", "yep", "nope"}}
    \cup {<<Lit(w), Plus(WhiteSpace), Lit("up"), HailTail>> : w \in {"what", "whats"}}
    \cup {<<Lit("what"), Lit("'"), Opt("s"), Plus(WhiteSpace), Lit("up"), HailTail>>}
    \cup {<<Lit(w), HailTail>> : w \in {"sup", "yo"}}

\* strings.TrimSpace
RECURSIVE TrimLeft(_)
TrimLeft(s) ==
    IF s # <<>> /\ s[1] \in WhiteSpace THEN TrimLeft(Tail(s)) ELSE s
RECURSIVE TrimRight(_)
TrimRight(s) ==
    IF s # <<>> /\ s[Len(s)] \in WhiteSpace THEN TrimRight(SubSeq(s, 1, Len(s) - 1)) ELSE s
TrimSpace(s) == TrimRight(TrimLeft(s))

\* len of a string: the characters of its tokens
RECURSIVE ByteLen(_)
ByteLen(s) == IF s = <<>> THEN 0 ELSE Len(s[1]) + ByteLen(Tail(s))

MaxGreetingLen == 25

IsGreeting(query) ==
    LET trimmed == TrimSpace(query)
    IN  IF ByteLen(trimmed) > MaxGreetingLen THEN FALSE
        ELSE \E pattern \in greetingPatterns : MatchFrom(ToLower(trimmed), 1, pattern, 1)

\* ShouldSearchMemory letting a personal pronoun override the tool signal too
ShouldSearchMemoryPronounFirst(c, query) ==
    LET hasPersonalIndicator == ContainsPersonalPronoun(query)
    IN  IF c.FactCheckNeeded /\ ~hasPersonalIndicator THEN FALSE
        ELSE IF hasPersonalIndicator THEN ~IsGreeting(query)
        ELSE IF c.HasToolsForFactCheck THEN FALSE
        ELSE IF IsGreeting(query) THEN FALSE
        ELSE TRUE

ShouldSearchMemory(c, query) ==
    LET hasPersonalIndicator == ContainsPersonalPronoun(query)
    IN  IF c.FactCheckNeeded /\ ~hasPersonalIndicator THEN FALSE
        ELSE IF c.HasToolsForFactCheck THEN FALSE
        ELSE IF IsGreeting(query) THEN FALSE
        ELSE TRUE

\* a string of words separated by single spaces
RECURSIVE Words(_)
Words(ws) ==
    IF Len(ws) <= 1 THEN ws ELSE <<ws[1], " ">> \o Words(Tail(ws))
RECURSIVE Repeat(_, _)
Repeat(tok, n) == IF n = 0 THEN <<>> ELSE <<tok>> \o Repeat(tok, n - 1)

QueryInputs ==
    {Words(<<"What", "is", "the", "capital", "of", "France">>) \o <<"?">>,
     Words(<<"What", "is", "my", "budget">>) \o <<"?">>,
     Words(<<"Tell", "me", "about", "my", "preferences">>),
     <<"I", "'", "m", " ">> \o Words(<<"planning", "a", "trip">>),
     Words(<<"Which", "project", "is", "mine">>) \o <<"?">>,
     Words(<<"Search", "for", "my", "emails">>),
     <<"What", "'", "s", " ">> \o Words(<<"the", "weather", "today">>) \o <<"?">>,
     Words(<<"What", "is", "hello", "in", "French">>) \o <<"?">>,
     Words(<<"The", "hello", "world", "program">>),
     Words(<<"How", "much">>) \o <<"?">>,
     <<"Hi", ",", " ", "what", "'", "s", " ", "my", " ", "budget", "?">>,
     <<"Hello", " ", "imy", " ", "friend">>,
     <<>>,
     <<" ", " ", " ">>,
     <<"?", "?", "?">>,
     <<"Hi">>,
     <<"Hi", "?">>,
     <<" ", "Hi", " ">>,
     <<"hi">> \o Repeat("!", 23),
     <<"hi">> \o Repeat("!", 24),
     <<"Hello", " ", "there", "!">>,
     <<"Hey", ",", " ", "there", ".">>,
     <<"hithere">>,
     <<"Thanks">>,
     <<"thank", " ", " ", "you", "!", "!">>,
     <<"Good", " ", "morning">>,
     <<"Morning">>,
     <<"goodmorning">>,
     <<"see", " ", "you">>,
     <<"ok">>,
     <<"What", "'", "s", " ", "up", "?">>,
     <<"whats", " ", "up">>,
     <<"Sup", "?">>,
     <<"yo">>,
     <<"I">>,
     <<"MY", " ", "plan">>}

\* the request pipeline sets the classification signals of a new request
ClassifyRequest(factCheckNeeded, hasTools) ==
    /\ ctx' = RequestContext(factCheckNeeded, hasTools)
    /\ lastOp' = [op |-> "none", arg |-> <<>>]
    /\ lastRes' = [err |-> NoErr, out |-> <<>>]
    /\ UNCHANGED <<rows, now, cfg, rt, extractor, turnCounts, calls, updating>>

\* handleMemoryRetrieval asking the filter about the request's user message
DecideMemorySearch(query) ==
    /\ lastOp' = [op |-> "ShouldSearchMemory", arg |-> query]
    /\ lastRes' = [err |-> NoErr, out |-> ShouldSearchMemory(ctx, query)]
    /\ UNCHANGED <<rows, now, cfg, rt, ctx, extractor, turnCounts, calls, updating>>

NextFilter ==
    \/ \E f \in BOOLEAN, t \in BOOLEAN : ClassifyRequest(f, t)
    \/ \E query \in QueryInputs : DecideMemorySearch(query)

SpecFilter == Init /\ [][NextFilter]_vars

(***************************************************************************)
(* The memory extractor: ProcessResponse counts the turns of a session,    *)
(* and every batchSize-th turn asks the LLM for facts and stores each of   *)
(* them with deduplication in the full store.                              *)
(***************************************************************************)
MaxTurns == 10
DefaultBatchSize == 10

\* ExtractedFact
Fact(type, content) == [type |-> type, content |-> content]

\* generateMemoryID: "mem_" and the nanoseconds of the clock
generateMemoryID(t) == <<"mem_", ToString(t)>>

\* CheckDeduplication: what it may return, [action, similarity, existing],
\* existing being <<>> for nil or <<memory>>
CheckDeduplication(rs, userID, content, memType, config) ==
    {IF r.err # NoErr \/ r.out = <<>>
     THEN [action |-> "create", similarity |-> 0, existing |-> <<>>]
     ELSE [action |-> IF r.out[1].relevance >= config.high_similarity
                      THEN "update" ELSE "create",
           similarity |-> r.out[1].relevance,
           existing |-> <<r.out[1].memory>>] :
        r \in RetrieveOp(rs, Opts(content, userID, Empty, <<memType>>, 0, config.gray_similarity),
                         "none")}

\* The context of a ProcessResponse call may be cancelled while it runs.
\* fail then names the point: "cancel@0" during the LLM call, "cancel@k"
\* while fact k is being stored.  Store calls entered with a cancelled
\* context fail at their first request to Milvus ("cancelled"); the store
\* call that was running at the cancellation is either stopped at its first
\* request, or has its insert failed after what preceded it went through.
CancelPoint(fail) ==
    CASE fail = "cancel@0" -> 0
      [] fail = "cancel@1" -> 1
      [] fail = "cancel@2" -> 2
      [] OTHER -> -1

\* what may fail while fact i is stored; "insert@1" is an insert that fails
\* for the first fact only
FactFailures(fail, i) ==
    IF fail = "insert@1" THEN (IF i = 1 THEN {"insert"} ELSE {"none"})
    ELSE IF CancelPoint(fail) < 0 THEN {fail}
    ELSE IF i < CancelPoint(fail) THEN {"none"}
    ELSE IF i = CancelPoint(fail) THEN {"cancelled", "insert"}
    ELSE {"cancelled"}

\* the request of Store, and of Forget, that a failure hits
InsertFailure(fail) == IF fail = "cancelled" THEN "insert" ELSE fail
DeleteFailure(fail) == IF fail = "cancelled" THEN "delete" ELSE "none"

\* the importance createNewMemory gives a memory, 0.5, in hundredths
DefaultImportance == 50

\* createNewMemory: [rows, err, mem], mem being the memory handed to Store
createNewMemory(rs, userID, fact, t, fail) ==
    LET mem == [Mem(generateMemoryID(t), userID, Empty, fact.type, fact.content)
                    EXCEPT !.source = <<"conversation">>, !.created_at = t,
                           !.importance = DefaultImportance]
        r == StoreOp(rs, mem, t, Empty, InsertFailure(fail))
    IN  [rows |-> r.rows, mem |-> r.mem,
         err |-> IF r.err = NoErr THEN NoErr ELSE Wrap("failed to store memory", r.err)]

\* storeWithDeduplication refusing an update that names no memory
storeWithDeduplicationStrict(rs, userID, fact, result, t, fail) ==
    IF result.action = "update" /\ result.existing = <<>>
    THEN [rows |-> rs, done |-> "none", stored |-> ZeroMem,
          err |-> <<"update action but no existing memory">>]
    ELSE IF result.action = "update"
    THEN LET existing == [result.existing[1] EXCEPT !.content = fact.content,
                                                    !.updated_at = t]
             r == UpdateOp(rs, existing.id, existing, t, Empty,
                           DeleteFailure(fail), InsertFailure(fail))
         IN  [rows |-> r.rows, done |-> "update", stored |-> r.mem,
              err |-> IF r.err = NoErr THEN NoErr ELSE Wrap("failed to update memory", r.err)]
    ELSE LET r == createNewMemory(rs, userID, fact, t, fail)
         IN  [rows |-> r.rows, done |-> "create", stored |-> r.mem, err |-> r.err]

\* storeWithDeduplication acting on a deduplication result:
\* [rows, err, done, stored], done naming the store call made and stored the
\* memory handed to it
storeWithDeduplication(rs, userID, fact, result, t, fail) ==
    IF result.action = "update" /\ result.existing # <<>>
    THEN LET existing == [result.existing[1] EXCEPT !.content = fact.content,
                                                    !.updated_at = t]
             r == UpdateOp(rs, existing.id, existing, t, Empty,
                           DeleteFailure(fail), InsertFailure(fail))
         IN  [rows |-> r.rows, done |-> "update", stored |-> r.mem,
              err |-> IF r.err = NoErr THEN NoErr ELSE Wrap("failed to update memory", r.err)]
    ELSE LET r == createNewMemory(rs, userID, fact, t, fail)
         IN  [rows |-> r.rows, done |-> "create", stored |-> r.mem, err |-> r.err]

\* the loop giving up at the first fact whose store fails
AfterFactStopOnError(facts, i, r) == IF r.err # NoErr THEN Len(facts) + 1 ELSE i + 1

\* the fact the loop goes to when storeWithDeduplication has returned r for
\* fact i: the next one, whatever r.err is
AfterFact(facts, i, r) == i + 1

\* the loop over the extracted facts: the set of [rows, log] it may end with
RECURSIVE StoreFacts(_, _, _, _, _, _, _)
StoreFacts(rs, userID, facts, i, t, fail, log) ==
    IF i > Len(facts) THEN {[rows |-> rs, log |-> log]}
    ELSE UNION {
            LET r == storeWithDeduplication(rs, userID, facts[i], result, t, f)
            IN  StoreFacts(r.rows, userID, facts, AfterFact(facts, i, r), t, fail,
                    Append(log, [fact |-> facts[i], action |-> result.action,
                                 similarity |-> result.similarity,
                                 existing |-> result.existing,
                                 done |-> r.done, err |-> r.err])) :
            result \in CheckDeduplication(rs, userID, facts[i].content, facts[i].type,
                                          extractor.dedupConfig),
            f \in FactFailures(fail, i)}

(***************************************************************************)
(* The extraction LLM.  The content of its reply is a token string: white  *)
(* space, the code fence (three backquotes), the word json, the brackets   *)
(* and the comma of a JSON array, a whole JSON object as one token, and     *)
(* other words.                                                            *)
(***************************************************************************)
\* the three backquotes of a code fence, which a string here cannot hold
Fence == "'''"

\* the JSON objects the replies are made of, as json.Unmarshal reads their
\* "type" and "content" members
JSONObjects ==
    [tok \in {"{type:semantic,content:c1}", "{type:semantic,content:c4}",
              "{type:episodic,content:c4}", "{type:semantic,content:q1}",
              "{type: Semantic ,content: c2 }", "{type:invalid_type,content:c2}",
              "{type:procedural,content: }"} |->
        CASE tok = "{type:semantic,content:c1}" -> Fact(Semantic, Content1)
          [] tok = "{type:semantic,content:c4}" -> Fact(Semantic, Content4)
          [] tok = "{type:episodic,content:c4}" -> Fact(Episodic, Content4)
          [] tok = "{type:semantic,content:q1}" -> Fact(Semantic, Query1)
          [] tok = "{type: Semantic ,content: c2 }" ->
                Fact(<<" ", "Semantic", " ">>, <<" ", "c2", " ">>)
          [] tok = "{type:invalid_type,content:c2}" -> Fact(<<"invalid_type">>, Content2)
          [] tok = "{type:procedural,content: }" -> Fact(<<"procedural">>, <<" ">>)]

\* the matches of codeBlockPattern (fence, optional json, white space, a lazy
\* group, white space, fence) that start at token i, as
\* <<json taken, white space taken, last token of the group>>
FenceMatches(toks, i) ==
    IF toks[i] # Fence THEN {}
    ELSE {c \in (0..1) \X (0..(Len(toks) - i)) \X ((i + 1)..Len(toks)) :
            LET p == i + c[1] + c[2] + 1
            IN  /\ c[1] = 1 => (i + 1 <= Len(toks) /\ toks[i + 1] = "json")
                /\ p <= c[3]
                /\ \A x \in (i + c[1] + 1)..(i + c[1] + c[2]) : toks[x] \in WhiteSpace
                /\ \E m \in (c[3] + 1)..Len(toks) :
                      /\ toks[m] = Fence
                      /\ \A x \in (c[3] + 1)..(m - 1) : toks[x] \in WhiteSpace}

\* the match the regexp engine prefers: json taken, then the most white
\* space, then the shortest group
PreferredMatch(cands) ==
    CHOOSE c \in cands : \A d \in cands :
        \/ c[1] > d[1]
        \/ c[1] = d[1] /\ c[2] > d[2]
        \/ c[1] = d[1] /\ c[2] = d[2] /\ c[3] <= d[3]

\* cleanJSONResponse
cleanJSONResponse(content) ==
    LET starts == {i \in 1..Len(content) : FenceMatches(content, i) # {}}
    IN  IF starts = {} THEN TrimSpace(content)
        ELSE LET i == SetMin(starts)
                 c == PreferredMatch(FenceMatches(content, i))
             IN  TrimSpace(SubSeq(content, i + c[1] + c[2] + 1, c[3]))

\* json.Unmarshal into []ExtractedFact: [facts, err]
UnmarshalFacts(content) ==
    LET t == SelectSeq(content, LAMBDA tok : tok \notin WhiteSpace)
        n == Len(t)
        syntaxErr == [facts |-> <<>>, err |-> <<"invalid", "character">>]
    IN  IF t = <<"null">> THEN [facts |-> <<>>, err |-> NoErr]
        ELSE IF n < 2 \/ t[1] # "[" \/ t[n] # "]" THEN syntaxErr
        ELSE IF n = 2 THEN [facts |-> <<>>, err |-> NoErr]
        ELSE IF /\ n % 2 = 1
                /\ \A k \in 2..(n - 1) :
                      IF k % 2 = 0 THEN t[k] \in DOMAIN JSONObjects ELSE t[k] = ","
        THEN [facts |-> [k \in 1..((n - 1) \div 2) |-> JSONObjects[t[2 * k]]], err |-> NoErr]
        ELSE syntaxErr

MemoryTypes == {Semantic, <<"procedural">>, Episodic}

\* normalizeMemoryType; Empty for a type that is not one of the three
normalizeMemoryType(typeStr) ==
    LET t == ToLower(TrimSpace(typeStr))
    IN  IF t \in MemoryTypes THEN t ELSE Empty

\* the validation loop of parseExtractedFacts
RECURSIVE validFacts(_)
validFacts(facts) ==
    IF facts = <<>> THEN <<>>
    ELSE LET fact == facts[1]
             rest == validFacts(Tail(facts))
         IN  IF TrimSpace(fact.content) = Empty THEN rest
             ELSE IF normalizeMemoryType(fact.type) = Empty THEN rest
             ELSE <<Fact(normalizeMemoryType(fact.type), TrimSpace(fact.content))>> \o rest

\* parseExtractedFacts: [facts, err]
parseExtractedFacts(content) ==
    LET cleaned == cleanJSONResponse(TrimSpace(content))
        parsed == UnmarshalFacts(cleaned)
    IN  IF cleaned = Empty \/ cleaned = <<"[", "]">> THEN [facts |-> <<>>, err |-> NoErr]
        ELSE IF parsed.err # NoErr
        THEN [facts |-> <<>>, err |-> Wrap("failed to parse facts JSON", parsed.err)]
        ELSE [facts |-> validFacts(parsed.facts), err |-> NoErr]

\* what the endpoint does with the request: it answers 200 with a choice
\* ("ok"), or the request fails, times out, is answered with another status,
\* with a body that is not a chat response, or with no choice
LLMOutcomes == {"ok", "transport", "timeout", "cancelled", "status", "body", "nochoices"}
Reply(outcome, content) == [outcome |-> outcome, content |-> content]

\* callLLMForExtraction: [facts, err]
callLLMForExtraction(reply) ==
    LET failed(err) == [facts |-> <<>>, err |-> err]
    IN  CASE reply.outcome = "transport" -> failed(Wrap("LLM request failed", RpcError))
          [] reply.outcome = "timeout" ->
                failed(Wrap("LLM request failed", <<"context", "deadline", "exceeded">>))
          [] reply.outcome = "cancelled" -> failed(Wrap("LLM request failed", CtxCanceled))
          [] reply.outcome = "status" -> failed(<<"LLM returned status", "500">>)
          [] reply.outcome = "body" -> failed(Wrap("failed to parse response", <<"EOF">>))
          [] reply.outcome = "nochoices" -> failed(<<"no choices in LLM response">>)
          [] OTHER -> parseExtractedFacts(reply.content)

\* Message
Message(role, content) == [role |-> role, content |-> content]

\* ExtractFacts handing the error of the LLM call to its caller
ExtractFactsPropagating(config, messages, reply) ==
    IF ~config.enabled \/ config.endpoint = Empty THEN [facts |-> <<>>, err |-> NoErr]
    ELSE IF Len(messages) = 0 THEN [facts |-> <<>>, err |-> NoErr]
    ELSE LET r == callLLMForExtraction(reply)
         IN  IF r.err # NoErr THEN [facts |-> <<>>, err |-> r.err]
             ELSE [facts |-> r.facts, err |-> NoErr]

\* MemoryExtractor.ExtractFacts: [facts, err]
ExtractFacts(config, messages, reply) ==
    IF ~config.enabled \/ config.endpoint = Empty THEN [facts |-> <<>>, err |-> NoErr]
    ELSE IF Len(messages) = 0 THEN [facts |-> <<>>, err |-> NoErr]
    ELSE LET r == callLLMForExtraction(reply)
         IN  IF r.err # NoErr THEN [facts |-> <<>>, err |-> NoErr]
             ELSE [facts |-> r.facts, err |-> NoErr]

\* a batch size that is not positive taken for 1
BatchSizeDefaultOne(config) ==
    IF config.batch_size <= 0 THEN 1 ELSE config.batch_size

\* the batch size ProcessResponse works with
BatchSize(config) ==
    IF config.batch_size <= 0 THEN DefaultBatchSize ELSE config.batch_size

\* one counter for all sessions
CountTurnAllSessions(counts, sessionID) == [s \in Sessions |-> counts[s] + 1]

\* e.turnCounts[sessionID]++
CountTurn(counts, sessionID) == [counts EXCEPT ![sessionID] = @ + 1]

\* the last batchSize messages alone, without the five of context
RecentBatchWithoutContext(history, batchSize) ==
    IF Len(history) > batchSize
    THEN SubSeq(history, Len(history) - batchSize + 1, Len(history))
    ELSE history

\* the batch ProcessResponse hands to ExtractFacts: the last batchSize + 5
\* messages of the history
RecentBatch(history, batchSize) ==
    IF Len(history) > batchSize + 5
    THEN SubSeq(history, Len(history) - batchSize - 5 + 1, Len(history))
    ELSE history

\* ProcessResponse returning the first error of its store loop
ResponseErrorFromStore(extracted, log) ==
    IF extracted.err # NoErr THEN extracted.err
    ELSE LET failed == {i \in 1..Len(log) : log[i].err # NoErr}
         IN  IF failed = {} THEN NoErr ELSE log[SetMin(failed)].err

\* what ProcessResponse returns once it has asked for the facts: the error
\* of ExtractFacts, and nil whatever the store loop met
ResponseError(extracted, log) == extracted.err

\* MemoryExtractor.ProcessResponse; reply is what the LLM endpoint does when
\* it is asked, fail the store request that fails
ProcessResponse(sessionID, userID, history, reply, fail) ==
    LET config == extractor.config
        batch == RecentBatch(history, BatchSize(config))
        extracted == ExtractFacts(config, batch,
                                  IF CancelPoint(fail) = 0
                                  THEN [outcome |-> "cancelled", content |-> <<>>]
                                  ELSE reply)
        call == [op |-> "ProcessResponse",
                 arg |-> [session |-> sessionID, user_id |-> userID,
                          history |-> history, reply |-> reply,
                          cancelled_at |-> CancelPoint(fail)]]
        skipped == [err |-> NoErr, out |-> <<>>]
    IN  /\ rt.pc = "idle"
        /\ IF ~extractor.store_enabled \/ ~config.enabled \/ config.endpoint = Empty
           THEN /\ lastOp' = call @@ [extracted |-> FALSE]
                /\ lastRes' = skipped
                /\ UNCHANGED <<rows, turnCounts>>
           ELSE /\ turnCounts[sessionID] < MaxTurns
                /\ turnCounts' = CountTurn(turnCounts, sessionID)
                /\ IF turnCounts'[sessionID] % BatchSize(config) # 0
                   THEN /\ lastOp' = call @@ [extracted |-> FALSE]
                        /\ lastRes' = skipped
                        /\ UNCHANGED rows
                   ELSE IF extracted.err # NoErr
                   THEN /\ lastOp' = call @@ [extracted |-> TRUE, batch |-> batch]
                        /\ lastRes' = [err |-> ResponseError(extracted, <<>>), out |-> <<>>]
                        /\ UNCHANGED rows
                   ELSE \E r \in StoreFacts(rows, userID, extracted.facts, 1, now, fail, <<>>) :
                            /\ Cardinality(r.rows) <= Cardinality(rows) + Len(extracted.facts)
                            /\ rows' = r.rows
                            /\ lastOp' = call @@ [extracted |-> TRUE, batch |-> batch]
                            /\ lastRes' = [err |-> ResponseError(extracted, r.log),
                                           out |-> r.log]
        /\ UNCHANGED <<now, cfg, rt, ctx, extractor, calls, updating>>

\* a conversation of one turn
History1 == <<Message("user", Content1), Message("assistant", Content2)>>

ExtractorInputs ==
    {NewMemoryExtractorWithStore(ExtractionConfig(TRUE, <<"http://llm">>, b), TRUE) :
        b \in {-1, 0, 1, 2, 3}}
    \cup {NewMemoryExtractorWithStore(ExtractionConfig(TRUE, <<"http://llm">>, 2), FALSE),
          NewMemoryExtractorWithStore(ExtractionConfig(FALSE, <<"http://llm">>, 2), TRUE),
          NewMemoryExtractorWithStore(ExtractionConfig(TRUE, Empty, 2), TRUE)}

InitTurns ==
    /\ rows = {}
    /\ now = 1
    /\ lastOp = [op |-> "none", arg |-> <<>>]
    /\ lastRes = [err |-> NoErr, out |-> <<>>]
    /\ cfg = NewMilvusStore([enabled |-> TRUE, config |-> [model |-> Empty, limit |-> 0, threshold |-> 0]])
    /\ rt = RtIdle
    /\ ctx = RequestContext(FALSE, FALSE)
    /\ extractor \in ExtractorInputs
    /\ turnCounts = NoTurns
    /\ calls = NoCalls
    /\ updating = NoUpdate

NextTurns ==
    \E sessionID \in Sessions,
       content \in {<<"[", "]">>, <<"[", "{type:semantic,content:c1}", "]">>} :
        ProcessResponse(sessionID, UserA, History1, Reply("ok", content), "none")

SpecTurns == InitTurns /\ [][NextTurns]_vars

\* collections the deduplication meets: user a's semantic memory next to
\* user b's, or next to user a's episodic one
DedupCollections ==
    {{},
     {Row(Id1, UserA, Empty, Semantic, Content1, 1),
      Row(Id2, UserB, Empty, Semantic, Content4, 1)},
     {Row(Id1, UserA, Empty, Semantic, Content5, 1),
      Row(Id2, UserA, Empty, Episodic, Content4, 1)},
     {Row(Id1, UserA, Empty, Semantic, Content2, 1),
      Row(Id2, UserA, Empty, Semantic, Content3, 1)}}

\* replies of one fact each
FactReplies ==
    {Reply("ok", <<"[", obj, "]">>) :
        obj \in {"{type:semantic,content:c1}", "{type:semantic,content:c4}",
                 "{type:episodic,content:c4}", "{type:semantic,content:q1}"}}

InitDedup ==
    /\ rows \in DedupCollections
    /\ now = MaxTime
    /\ lastOp = [op |-> "none", arg |-> <<>>]
    /\ lastRes = [err |-> NoErr, out |-> <<>>]
    /\ cfg = NewMilvusStore([enabled |-> TRUE, config |-> [model |-> Empty, limit |-> 0, threshold |-> 0]])
    /\ rt = RtIdle
    /\ ctx = RequestContext(FALSE, FALSE)
    /\ extractor = NewMemoryExtractorWithStore(ExtractionConfig(TRUE, <<"http://llm">>, 1), TRUE)
    /\ turnCounts = [NoTurns EXCEPT ![Session1] = MaxTurns - 2]
    /\ calls = NoCalls
    /\ updating = NoUpdate

NextDedup ==
    \E userID \in {UserA, UserB, UserHostile}, reply \in FactReplies,
       fail \in {"none", "embed", "insert"} :
        ProcessResponse(Session1, userID, History1, reply, fail)

SpecDedup == InitDedup /\ [][NextDedup]_vars

\* what the extraction LLM may answer
ReplyInputs ==
    {Reply(outcome, <<>>) : outcome \in LLMOutcomes \ {"ok"}}
    \cup {Reply("ok", content) : content \in
            {<<"[", "{type:semantic,content:c1}", "]">>,
             <<Fence, "json", "\n", "[", "{type:semantic,content:c1}", ",",
               "{type: Semantic ,content: c2 }", "]", "\n", Fence>>,
             <<Fence, "[", "{type:semantic,content:c4}", "]", Fence>>,
             <<"Here", " ", Fence, "json", " ", "[", "{type:semantic,content:c4}", "]",
               Fence, " ", "done">>,
             <<"[", "{type:invalid_type,content:c2}", ",", "{type:procedural,content: }", "]">>,
             <<"not", " ", "valid", " ", "json", " ", "at", " ", "all">>,
             <<"[", "{type:semantic,content:c1}", ",", "]">>,
             <<"[", "{type:semantic,content:c1}">>,
             <<"[", "{type:semantic,content:c1}", " ", "{type:semantic,content:c4}", "]">>,
             <<Fence, "json", "\n", "[", "{type:semantic,content:c1}", "]">>,
             <<Fence, "json", " ", "oops", " ", Fence>>,
             <<Fence, "json", Fence>>,
             <<Fence, " ", Fence>>,
             <<Fence, Fence, "[", "{type:semantic,content:c1}", "]", Fence>>,
             <<"{type:semantic,content:c1}">>,
             <<"[", "[", "{type:semantic,content:c1}", "]", "]">>,
             <<"null">>,
             <<>>,
             <<" ", "[", "]", "\n">>}}

\* a caller asks the extractor for the facts of a conversation
ExtractFactsCall(messages, reply) ==
    LET r == ExtractFacts(extractor.config, messages, reply)
    IN  /\ rt.pc = "idle"
        /\ lastOp' = [op |-> "ExtractFacts", arg |-> [messages |-> messages, reply |-> reply]]
        /\ lastRes' = [err |-> r.err, out |-> r.facts]
        /\ UNCHANGED <<rows, now, cfg, rt, ctx, extractor, turnCounts, calls, updating>>

InitExtract ==
    /\ rows \in {rs \in DedupCollections : \A r \in rs : r.content \in {Content1, Content4}}
    /\ now = MaxTime
    /\ lastOp = [op |-> "none", arg |-> <<>>]
    /\ lastRes = [err |-> NoErr, out |-> <<>>]
    /\ cfg = NewMilvusStore([enabled |-> TRUE, config |-> [model |-> Empty, limit |-> 0, threshold |-> 0]])
    /\ rt = RtIdle
    /\ ctx = RequestContext(FALSE, FALSE)
    /\ extractor \in {e \in ExtractorInputs : e.config.batch_size \in {1, 2}}
    /\ turnCounts = [NoTurns EXCEPT ![Session1] = MaxTurns - 2]
    /\ calls = NoCalls
    /\ updating = NoUpdate

NextExtract ==
    \/ \E messages \in {<<>>, History1}, reply \in ReplyInputs :
          ExtractFactsCall(messages, reply)
    \/ \E history \in {<<>>, History1}, reply \in ReplyInputs, fail \in {"none", "insert"} :
          ProcessResponse(Session1, UserA, history, reply, fail)

SpecExtract == InitExtract /\ [][NextExtract]_vars

(***************************************************************************)
(* Memory retrieval inside the request path: handleRequestBody calls       *)
(* handleMemoryRetrieval between the cache check and the model routing,    *)
(* and goes on with the body it returns.  A request body is the record     *)
(* [parses, messages]: whether it decodes as a JSON object, and its        *)
(* message list.                                                           *)
(***************************************************************************)
Body(parses, messages) == [parses |-> parses, messages |-> messages]

\* the router's memory settings: the global switch, the decision's memory
\* plugin ("none", "enabled", "disabled"), whether a store is there and
\* enabled, and the configured retrieval limit and threshold (0 = unset)
Router(memoryEnabled, plugin, storeEnabled) ==
    [memory_enabled |-> memoryEnabled, plugin |-> plugin, store_enabled |-> storeEnabled,
     default_retrieval_limit |-> 0, default_similarity_threshold |-> 0]

\* the query rewrite: [enabled, outcome, content], the LLM's answer
Rewrite(enabled, outcome, content) ==
    [enabled |-> enabled, outcome |-> outcome, content |-> content]

\* strings.Trim(s, quote characters)
RECURSIVE TrimQuotes(_)
TrimQuotes(s) ==
    IF s = <<>> THEN s
    ELSE IF s[1] \in {Quote, "'"} THEN TrimQuotes(Tail(s))
    ELSE IF s[Len(s)] \in {Quote, "'"} THEN TrimQuotes(SubSeq(s, 1, Len(s) - 1))
    ELSE s

\* BuildSearchQuery: the rewritten query, or the query itself when the
\* rewrite is off or the LLM call fails; it never returns an error
BuildSearchQuery(query, rewrite) ==
    IF ~rewrite.enabled THEN query
    ELSE IF rewrite.outcome # "ok" THEN query
    ELSE TrimQuotes(TrimSpace(rewrite.content))

Numerals == <<"1", "2", "3", "4", "5">>

\* the numbered list of FormatMemoriesAsContext
RECURSIVE MemoryLines(_, _)
MemoryLines(memories, i) ==
    IF i > Len(memories) THEN <<>>
    ELSE <<Numerals[i], ".", " ", "[">> \o memories[i].memory.memory_type \o <<"]", " ">>
         \o memories[i].memory.content \o <<"\n">> \o MemoryLines(memories, i + 1)

\* FormatMemoriesAsContext: header, numbered list, instruction line
FormatMemoriesAsContext(memories) ==
    <<"Relevant Context from Memory", "\n">> \o MemoryLines(memories, 1)
    \o <<"Use this context to answer the user">>

\* injectSystemMessage: [body, err]
injectSystemMessage(body, content) ==
    IF content = Empty THEN [body |-> body, err |-> NoErr]
    ELSE IF ~body.parses
    THEN [body |-> body, err |-> <<"failed to parse request body">>]
    ELSE LET system == {i \in 1..Len(body.messages) : body.messages[i].role = "system"}
             at == IF system = {} THEN 0
                   ELSE CHOOSE i \in system : \A j \in system : j <= i
         IN  [body |-> [body EXCEPT !.messages =
                            SubSeq(body.messages, 1, at)
                            \o <<Message("system", content)>>
                            \o SubSeq(body.messages, at + 1, Len(body.messages))],
              err |-> NoErr]

RequestRetrievalLimit == 5
RequestSimilarityThreshold == 60

\* what handleMemoryRetrieval returns when store.Retrieve fails
RetrievalFailedWithoutBody(requestBody, err) ==
    [body |-> Body(FALSE, <<>>), err |-> Wrap("memory retrieval failed", err)]
RetrievalFailed(requestBody, err) ==
    [body |-> requestBody, err |-> Wrap("memory retrieval failed", err)]

\* handleMemoryRetrieval: the set of [body, err, MemoryContext] it may end with
handleMemoryRetrieval(router, c, rs, userContent, userID, rewrite, requestBody, fail) ==
    LET memoryEnabled == IF router.plugin # "none" THEN router.plugin = "enabled"
                         ELSE router.memory_enabled
        original == [body |-> requestBody, err |-> NoErr, MemoryContext |-> c.MemoryContext]
        searchQuery == BuildSearchQuery(userContent, rewrite)
        retrieveLimit == IF router.default_retrieval_limit <= 0 THEN RequestRetrievalLimit
                         ELSE router.default_retrieval_limit
        retrieveThreshold == IF router.default_similarity_threshold <= 0
                             THEN RequestSimilarityThreshold
                             ELSE router.default_similarity_threshold
        retrieveOpts == Opts(searchQuery, userID, Empty, <<>>, retrieveLimit, retrieveThreshold)
        Injected(memories) ==
            LET context == FormatMemoriesAsContext(memories)
                injected == injectSystemMessage(requestBody, context)
            IN  IF context # Empty /\ injected.err = NoErr
                THEN [body |-> injected.body, err |-> NoErr, MemoryContext |-> context]
                ELSE [body |-> requestBody, err |-> NoErr, MemoryContext |-> context]
    IN  IF ~memoryEnabled THEN {original}
        ELSE IF ~router.store_enabled THEN {original}
        ELSE IF ~ShouldSearchMemory(c, userContent) THEN {original}
        ELSE IF userID = Empty THEN {original}
        ELSE {IF r.err # NoErr
              THEN LET failed == RetrievalFailed(requestBody, r.err)
                   IN  [body |-> failed.body, err |-> failed.err,
                        MemoryContext |-> c.MemoryContext]
              ELSE IF Len(r.out) = 0 THEN original
              ELSE Injected(r.out) : r \in RetrieveOp(rs, retrieveOpts, fail)}

\* handleRequestBody from the memory retrieval on: a retrieval error is
\* logged, and the request goes on to the model routing with the body that
\* handleMemoryRetrieval returned.  A request has its own RequestContext and
\* its body is handled once.
HandleRequestBody(router, userContent, userID, rewrite, requestBody, fail) ==
    /\ lastOp.op # "handleRequestBody"
    /\ \E r \in handleMemoryRetrieval(router, ctx, rows, userContent, userID, rewrite,
                                      requestBody, fail) :
        /\ ctx' = [ctx EXCEPT !.MemoryContext = r.MemoryContext]
        /\ lastRes' = [err |-> NoErr, out |-> r.body, memErr |-> r.err]
    /\ lastOp' = [op |-> "handleRequestBody",
                  arg |-> [router |-> router, query |-> userContent, user_id |-> userID,
                           rewrite |-> rewrite, body |-> requestBody, fail |-> fail]]
    /\ UNCHANGED <<rows, now, cfg, rt, extractor, turnCounts, calls, updating>>

RouterInputs ==
    {Router(TRUE, "none", TRUE), Router(FALSE, "none", TRUE),
     Router(TRUE, "disabled", TRUE), Router(FALSE, "enabled", TRUE),
     Router(TRUE, "none", FALSE)}

RewriteInputs ==
    {Rewrite(FALSE, "ok", Empty), Rewrite(TRUE, "error", Empty),
     Rewrite(TRUE, "ok", <<Quote>> \o Content1 \o <<Quote, " ">>)}

BodyInputs ==
    {Body(TRUE, <<Message("user", Content1)>>),
     Body(TRUE, <<Message("system", Content2), Message("user", Content1),
                  Message("system", Content3), Message("assistant", Content2)>>),
     Body(FALSE, <<>>)}

\* the user messages of the requests: a greeting and a question
UserContentInputs == {<<"Hi">>, <<"What", " ", "is", " ", "my", " ", "budget", "?">>}

\* user A has a memory close to every query, user B only a distant one
RequestCollection ==
    {Row(Id1, UserA, Proj1, Semantic, Content1, 1),
     Row(Id2, UserA, Empty, Episodic, Content4, 1),
     Row(Id3, UserB, Proj1, Semantic, Content3, 1)}

InitRequest ==
    /\ rows = RequestCollection
    /\ now = MaxTime
    /\ lastOp = [op |-> "none", arg |-> <<>>]
    /\ lastRes = [err |-> NoErr, out |-> <<>>]
    /\ cfg = NewMilvusStore([enabled |-> TRUE, config |-> [model |-> Empty, limit |-> 0, threshold |-> 0]])
    /\ rt = RtIdle
    /\ ctx = RequestContext(FALSE, FALSE)
    /\ extractor = NewMemoryExtractorWithStore(ExtractionConfig(FALSE, Empty, 0), TRUE)
    /\ turnCounts = NoTurns
    /\ calls = NoCalls
    /\ updating = NoUpdate

NextRequest ==
    \/ \E f \in BOOLEAN, t \in BOOLEAN : ClassifyRequest(f, t)
    \/ \E router \in RouterInputs, userContent \in UserContentInputs,
          userID \in {UserA, UserB, Empty}, rewrite \in RewriteInputs,
          requestBody \in BodyInputs, fail \in {"none", "search"} :
            HandleRequestBody(router, userContent, userID, rewrite, requestBody, fail)

SpecRequest == InitRequest /\ [][NextRequest]_vars

(***************************************************************************)
(* The session of a request: extractMemoryInfo names the session whose     *)
(* turn counter ProcessResponse advances.  The Response API carries a      *)
(* conversation id; a chat completion is stateless, and its session id is  *)
(* derived from the user id and the messages.  The contents of this part   *)
(* are sequences of one-byte tokens, so that len counts tokens.            *)
(***************************************************************************)
MaxSessionContent == 100

\* sha256.Sum256, hex encoded, first 16 characters: a digest of the bytes
Sum256Hex16(bytes) == <<"sha256">> \o bytes

\* the session id derived from the last user message
deriveSessionIDFromLastMessage(messages, userID) ==
    LET user == {i \in 1..Len(messages) : messages[i].role = "user"}
        content == IF user = {} THEN Empty
                   ELSE messages[CHOOSE i \in user : \A j \in user : j <= i].content
        truncated == IF Len(content) > MaxSessionContent
                     THEN SubSeq(content, 1, MaxSessionContent) ELSE content
    IN  <<"cc-">> \o Sum256Hex16(userID \o <<":">> \o truncated)

\* deriveSessionIDFromMessages
deriveSessionIDFromMessages(messages, userID) ==
    LET user == {i \in 1..Len(messages) : messages[i].role = "user"}
        content == IF user = {} THEN Empty
                   ELSE messages[CHOOSE i \in user : \A j \in user : i <= j].content
        truncated == IF Len(content) > MaxSessionContent
                     THEN SubSeq(content, 1, MaxSessionContent) ELSE content
    IN  <<"cc-">> \o Sum256Hex16(userID \o <<":">> \o truncated)

\* the request as extractMemoryInfo sees it
MemoryRequest(responseAPI, conversationID, messages, userID) ==
    [conversation_id |-> conversationID, messages |-> messages,
     response_api |-> responseAPI, user_id |-> userID]

\* extractMemoryInfo: [err, out], out = [session, user_id, history]
extractMemoryInfo(request) ==
    LET isResponseAPI == request.response_api
        isChatCompletions == Len(request.messages) > 0
        nothing == [history |-> <<>>, session |-> Empty, user_id |-> Empty]
    IN  IF ~isResponseAPI /\ ~isChatCompletions
        THEN [err |-> <<"no conversation history available for memory extraction">>,
              out |-> nothing]
        ELSE IF request.user_id = Empty
        THEN [err |-> <<"userID is required for memory extraction but not provided">>,
              out |-> [nothing EXCEPT !.history =
                           IF isResponseAPI THEN <<>> ELSE request.messages]]
        ELSE IF isResponseAPI
        THEN IF request.conversation_id = Empty
             THEN [err |-> <<"ConversationID not set in Response API context">>,
                   out |-> nothing]
             ELSE [err |-> NoErr,
                   out |-> [history |-> <<>>, session |-> request.conversation_id,
                            user_id |-> request.user_id]]
        ELSE [err |-> NoErr,
              out |-> [history |-> request.messages,
                       session |-> deriveSessionIDFromMessages(request.messages, request.user_id),
                       user_id |-> request.user_id]]

\* a response is about to be processed: the session of its request is named
ExtractMemoryInfo(responseAPI, conversationID, messages, userID) ==
    /\ lastOp' = [op |-> "extractMemoryInfo",
                  arg |-> MemoryRequest(responseAPI, conversationID, messages, userID)]
    /\ lastRes' = extractMemoryInfo(MemoryRequest(responseAPI, conversationID, messages, userID))
    /\ UNCHANGED <<rows, now, cfg, rt, ctx, extractor, turnCounts, calls, updating>>

LongContent == [i \in 1..MaxSessionContent |-> "x"]

\* conversations: a first call, the same conversation grown by a turn and
\* by a system prompt, other conversations, and messages beyond 100 bytes
ConversationInputs ==
    {<<>>,
     <<Message("user", <<"h", "i">>)>>,
     <<Message("user", <<"h", "i">>), Message("assistant", <<"o", "k">>),
       Message("user", <<"y", "o">>)>>,
     <<Message("system", <<"s">>), Message("user", <<"h", "i">>),
       Message("assistant", <<"o", "k">>), Message("user", <<"y", "o">>)>>,
     <<Message("user", <<"y", "o">>)>>,
     <<Message("user", <<"y", "o">>), Message("assistant", <<"o", "k">>),
       Message("user", <<"h", "i">>)>>,
     <<Message("system", <<"s">>)>>,
     <<Message("user", LongContent \o <<"y">>)>>,
     <<Message("user", LongContent \o <<"z">>), Message("assistant", <<"o", "k">>)>>}

NextSession ==
    \E responseAPI \in BOOLEAN, conversationID \in {Empty, <<"conv_1">>},
       messages \in ConversationInputs, userID \in {UserA, UserB, Empty} :
        ExtractMemoryInfo(responseAPI, conversationID, messages, userID)

SpecSession == Init /\ [][NextSession]_vars

(***************************************************************************)
(* ProcessResponse calls running at the same time.  Each call is a         *)
(* goroutine; its steps are the statements of ProcessResponse that touch   *)
(* shared state: taking the mutex, the increment and the read of the       *)
(* counter under it, the batch test, the LLM call and the store loop.      *)
(* calls.log is the order in which LLM calls and store loops happened.     *)
(***************************************************************************)
At(c, pc) == calls.proc[c].pc = pc

Goto(c, pc) == [calls EXCEPT !.proc[c].pc = pc]

\* the calls run for one user with one history
BeginResponse(c, sessionID) ==
    /\ At(c, "idle")
    /\ calls' = [calls EXCEPT
                    !.proc[c].session = sessionID,
                    !.proc[c].pc = IF \/ ~extractor.store_enabled
                                      \/ ~extractor.config.enabled
                                      \/ extractor.config.endpoint = Empty
                                   THEN "done" ELSE "lock"]
    /\ UNCHANGED <<rows, now, lastOp, lastRes, cfg, rt, ctx, extractor, turnCounts, updating>>

\* e.mu is free with every call outside the locked region
MutexIgnored == TRUE
MutexFree == \A d \in CallIds : ~At(d, "locked") /\ ~At(d, "incremented")

\* e.mu.Lock()
LockCounter(c) ==
    /\ At(c, "lock")
    /\ MutexFree
    /\ calls' = Goto(c, "locked")
    /\ UNCHANGED <<rows, now, lastOp, lastRes, cfg, rt, ctx, extractor, turnCounts, updating>>

\* e.turnCounts[sessionID]++
IncrementTurn(c) ==
    /\ At(c, "locked")
    /\ turnCounts' = CountTurn(turnCounts, calls.proc[c].session)
    /\ calls' = Goto(c, "incremented")
    /\ UNCHANGED <<rows, now, lastOp, lastRes, cfg, rt, ctx, extractor, updating>>

\* turnCount := e.turnCounts[sessionID]; e.mu.Unlock()
ReadTurn(c) ==
    /\ At(c, "incremented")
    /\ calls' = [calls EXCEPT !.proc[c].turnCount = turnCounts[calls.proc[c].session],
                              !.proc[c].pc = "decide"]
    /\ UNCHANGED <<rows, now, lastOp, lastRes, cfg, rt, ctx, extractor, turnCounts, updating>>

\* only extract every batchSize turns
DecideBatch(c) ==
    /\ At(c, "decide")
    /\ calls' = Goto(c, IF calls.proc[c].turnCount % BatchSize(extractor.config) # 0
                        THEN "done" ELSE "extract")
    /\ UNCHANGED <<rows, now, lastOp, lastRes, cfg, rt, ctx, extractor, turnCounts, updating>>

\* e.ExtractFacts on the recent batch
CallLLM(c, reply) ==
    /\ At(c, "extract")
    /\ LET config == extractor.config
           extracted == ExtractFacts(config, RecentBatch(History1, BatchSize(config)), reply)
       IN  calls' = [calls EXCEPT
                        !.log = Append(@, <<c, "llm">>),
                        !.proc[c].facts = extracted.facts,
                        !.proc[c].pc = IF extracted.err # NoErr \/ Len(extracted.facts) = 0
                                       THEN "done" ELSE "store"]
    /\ UNCHANGED <<rows, now, lastOp, lastRes, cfg, rt, ctx, extractor, turnCounts, updating>>

\* the loop of storeWithDeduplication over the extracted facts
StoreExtracted(c) ==
    /\ At(c, "store")
    /\ \E r \in StoreFacts(rows, UserA, calls.proc[c].facts, 1, now, "none", <<>>) :
        rows' = r.rows
    /\ calls' = [calls EXCEPT !.log = Append(@, <<c, "store">>), !.proc[c].pc = "done"]
    /\ UNCHANGED <<now, lastOp, lastRes, cfg, rt, ctx, extractor, turnCounts, updating>>

\* what the LLM answers the concurrent calls: a fact, or none
ConcurrentReplies ==
    {Reply("ok", <<"[", "{type:semantic,content:c1}", "]">>), Reply("ok", <<"[", "]">>)}

\* the turns counted before the concurrent calls start
StartTurns == 1

InitConcurrent ==
    /\ rows = {}
    /\ now = MaxTime
    /\ lastOp = [op |-> "none", arg |-> <<>>]
    /\ lastRes = [err |-> NoErr, out |-> <<>>]
    /\ cfg = NewMilvusStore([enabled |-> TRUE, config |-> [model |-> Empty, limit |-> 0, threshold |-> 0]])
    /\ rt = RtIdle
    /\ ctx = RequestContext(FALSE, FALSE)
    /\ extractor \in {e \in ExtractorInputs : e.config.batch_size \in {1, 2}}
    /\ turnCounts = [NoTurns EXCEPT ![Session1] = StartTurns]
    /\ calls = NoCalls
    /\ updating = NoUpdate

NextConcurrent ==
    \E c \in CallIds :
        \/ BeginResponse(c, Session1)
        \/ LockCounter(c)
        \/ IncrementTurn(c)
        \/ ReadTurn(c)
        \/ DecideBatch(c)
        \/ \E reply \in ConcurrentReplies : CallLLM(c, reply)
        \/ StoreExtracted(c)

SpecConcurrent == InitConcurrent /\ [][NextConcurrent]_vars

(***************************************************************************)
(* Update of the full store next to concurrent readers.  Forget and Store  *)
(* each hold the store's mutex for their whole body, Get and Retrieve the  *)
(* read lock; Update holds nothing between its Forget and its Store.       *)
(***************************************************************************)
\* Update up to the return of its Forget
UpdateForget(id, m, fail) ==
    /\ updating.pc = "idle"
    /\ LET f == ForgetOp(rows, id, fail)
       IN  IF f.err # NoErr /\ f.err # ErrNotFound
           THEN /\ lastOp' = [op |-> "Update", arg |-> [id |-> id, mem |-> m]]
                /\ lastRes' = [err |-> f.err, out |-> m]
                /\ UNCHANGED <<rows, updating>>
           ELSE /\ rows' = f.rows
                /\ updating' = [pc |-> "store", id |-> id, mem |-> m,
                                existed |-> {r \in rows : r.id = id} # {}]
                /\ lastOp' = [op |-> "Forget", arg |-> id]
                /\ lastRes' = [err |-> f.err, out |-> <<>>]
    /\ UNCHANGED <<now, cfg, rt, ctx, extractor, turnCounts, calls>>

\* memory.ID = id; return s.Store(ctx, memory)
UpdateStore(fail) ==
    /\ updating.pc = "store"
    /\ LET r == StoreOp(rows, [updating.mem EXCEPT !.id = updating.id], now, Empty, fail)
       IN  /\ rows' = r.rows
           /\ lastOp' = [op |-> "Update", arg |-> [id |-> updating.id, mem |-> updating.mem]]
           /\ lastRes' = [err |-> r.err, out |-> r.mem]
    /\ updating' = NoUpdate
    /\ UNCHANGED <<now, cfg, rt, ctx, extractor, turnCounts, calls>>

InitUpdate ==
    /\ rows \in {{Row(Id1, UserA, Proj1, Semantic, Content1, 1)},
                 {Row(Id1, UserA, Proj1, Semantic, Content1, 1),
                  Row(Id2, UserB, Proj1, Semantic, Content1, 1)}}
    /\ now = MaxTime
    /\ lastOp = [op |-> "none", arg |-> <<>>]
    /\ lastRes = [err |-> NoErr, out |-> <<>>]
    /\ cfg = NewMilvusStore([enabled |-> TRUE, config |-> [model |-> Empty, limit |-> 0, threshold |-> 0]])
    /\ rt = RtIdle
    /\ ctx = RequestContext(FALSE, FALSE)
    /\ extractor = NewMemoryExtractorWithStore(ExtractionConfig(FALSE, Empty, 0), TRUE)
    /\ turnCounts = NoTurns
    /\ calls = NoCalls
    /\ updating = NoUpdate

NextUpdate ==
    \/ \E id \in IdInputs, m \in UpdateInputs, fail \in {"none", "delete"} :
          UpdateForget(id, m, fail)
    \/ \E fail \in {"none", "insert"} : UpdateStore(fail)
    \/ \E id \in IdInputs, fail \in {"none", "query"}, shape \in QueryEmptyShapes :
          Get(id, fail, shape)
    \/ \E opts \in RetrieveInputs, fail \in {"none", "search"} : Retrieve(opts, fail)

SpecUpdate == InitUpdate /\ [][NextUpdate]_vars

(***************************************************************************)
(* The store loops of concurrent extractions, statement by statement:      *)
(* storeWithDeduplication first asks CheckDeduplication, then creates or   *)
(* updates, and other calls and the clock move in between.  The calls      *)
(* start where SpecConcurrent brings them with batch size 1: each has      *)
(* counted its turn and extracted the same fact.                           *)
(***************************************************************************)
\* result := CheckDeduplication(...)
CheckDedup(c) ==
    /\ At(c, "store")
    /\ \E result \in CheckDeduplication(rows, UserA, calls.proc[c].facts[1].content,
                                        calls.proc[c].facts[1].type, extractor.dedupConfig) :
        calls' = [calls EXCEPT !.proc[c].dedup = <<result>>, !.proc[c].pc = "apply"]
    /\ UNCHANGED <<rows, now, lastOp, lastRes, cfg, rt, ctx, extractor, turnCounts, updating>>

\* the switch on result.Action, and the next fact of the loop
ApplyDedup(c) ==
    /\ At(c, "apply")
    /\ LET r == storeWithDeduplication(rows, UserA, calls.proc[c].facts[1],
                                       calls.proc[c].dedup[1], now, "none")
       IN  /\ rows' = r.rows
           /\ lastOp' = [op |-> "storeWithDeduplication",
                         arg |-> [call |-> c, fact |-> calls.proc[c].facts[1],
                                  result |-> calls.proc[c].dedup[1]]]
           /\ lastRes' = [err |-> r.err, out |-> r.done, stored |-> r.stored]
    /\ calls' = [calls EXCEPT
                    !.log = Append(@, <<c, "store">>),
                    !.proc[c].facts = Tail(@),
                    !.proc[c].dedup = <<>>,
                    !.proc[c].pc = IF Len(calls.proc[c].facts) > 1 THEN "store" ELSE "done"]
    /\ UNCHANGED <<now, cfg, rt, ctx, extractor, turnCounts, updating>>

InitRace ==
    /\ rows \in {{}, {Row(Id2, UserB, Proj1, Semantic, Content1, 1)}}
    /\ now = 1
    /\ lastOp = [op |-> "none", arg |-> <<>>]
    /\ lastRes = [err |-> NoErr, out |-> <<>>]
    /\ cfg = NewMilvusStore([enabled |-> TRUE, config |-> [model |-> Empty, limit |-> 0, threshold |-> 0]])
    /\ rt = RtIdle
    /\ ctx = RequestContext(FALSE, FALSE)
    /\ extractor = NewMemoryExtractorWithStore(ExtractionConfig(TRUE, <<"http://llm">>, 1), TRUE)
    /\ turnCounts = [NoTurns EXCEPT ![Session1] = StartTurns + MaxCalls]
    /\ calls = [proc |-> [c \in CallIds |->
                             [IdleCall EXCEPT !.pc = "store", !.session = Session1,
                                              !.turnCount = StartTurns + c,
                                              !.facts = <<Fact(Semantic, Content1)>>]],
                log |-> <<>>]
    /\ updating = NoUpdate

NextRace ==
    \/ \E c \in CallIds : CheckDedup(c)
    \/ \E c \in CallIds : ApplyDedup(c)
    \/ Tick

SpecRace == InitRace /\ [][NextRace]_vars

(***************************************************************************)
(* Cancellation of the context of a ProcessResponse call that extracts:    *)
(* during the LLM call, or while one of the extracted facts is stored.     *)
(***************************************************************************)
\* the LLM's answers: one fact, the same fact twice, two different facts
CancelReplies ==
    {Reply("ok", content) : content \in
        {<<"[", "{type:semantic,content:c1}", "]">>,
         <<"[", "{type:semantic,content:c1}", ",", "{type:semantic,content:c1}", "]">>,
         <<"[", "{type:semantic,content:c1}", ",", "{type:semantic,content:c4}", "]">>}}

InitCancel ==
    /\ rows \in {{}, {Row(Id2, UserB, Proj1, Semantic, Content1, 1)}}
    /\ now = 1
    /\ lastOp = [op |-> "none", arg |-> <<>>]
    /\ lastRes = [err |-> NoErr, out |-> <<>>]
    /\ cfg = NewMilvusStore([enabled |-> TRUE, config |-> [model |-> Empty, limit |-> 0, threshold |-> 0]])
    /\ rt = RtIdle
    /\ ctx = RequestContext(FALSE, FALSE)
    /\ extractor \in {e \in ExtractorInputs : e.config.batch_size = 1}
    /\ turnCounts = [NoTurns EXCEPT ![Session1] = MaxTurns - 2]
    /\ calls = NoCalls
    /\ updating = NoUpdate

NextCancel ==
    \/ \E reply \in CancelReplies,
          fail \in {"none", "insert@1", "cancel@0", "cancel@1", "cancel@2"} :
          ProcessResponse(Session1, UserA, History1, reply, fail)
    \/ Tick

SpecCancel == InitCancel /\ [][NextCancel]_vars

(***************************************************************************)
(* ProcessResponse over conversations of several lengths, shorter and      *)
(* longer than the batch it hands to ExtractFacts.                         *)
(***************************************************************************)
\* a conversation of n messages, each with a content of its own
Conversation(n) ==
    [i \in 1 .. n |-> Message(IF i % 2 = 1 THEN "user" ELSE "assistant",
                              <<"m", ToString(i)>>)]

HistoryLengths == {0, 1, 6, 7, 8, 9, 15, 16}

InitBatch ==
    /\ rows = {}
    /\ now = 1
    /\ lastOp = [op |-> "none", arg |-> <<>>]
    /\ lastRes = [err |-> NoErr, out |-> <<>>]
    /\ cfg = NewMilvusStore([enabled |-> TRUE, config |-> [model |-> Empty, limit |-> 0, threshold |-> 0]])
    /\ rt = RtIdle
    /\ ctx = RequestContext(FALSE, FALSE)
    /\ extractor \in ExtractorInputs
    /\ turnCounts = [NoTurns EXCEPT ![Session1] = MaxTurns - 4]
    /\ calls = NoCalls
    /\ updating = NoUpdate

NextBatch ==
    \E n \in HistoryLengths,
       reply \in {Reply("ok", <<"[", "]">>), Reply("timeout", <<>>)} :
        ProcessResponse(Session1, UserA, Conversation(n), reply, "none")

SpecBatch == InitBatch /\ [][NextBatch]_vars

(***************************************************************************)
(* storeWithDeduplication on each result a deduplication check can hand    *)
(* it: update with and without an existing memory, create, and an action   *)
(* it does not know.                                                       *)
(***************************************************************************)
DedupResults ==
    {[action |-> "update", similarity |-> 90, existing |-> <<>>],
     [action |-> "update", similarity |-> 90,
      existing |-> <<MemOfRow(Row(Id1, UserA, Empty, Semantic, Content4, 1))>>],
     [action |-> "create", similarity |-> 0, existing |-> <<>>],
     [action |-> "merge", similarity |-> 70, existing |-> <<>>]}

\* the fact call c has extracted
FactOf(c) == Fact(Semantic, <<"f", ToString(c)>>)

InitFallback ==
    /\ rows = {Row(Id1, UserA, Empty, Semantic, Content4, 1)}
    /\ now = 1
    /\ lastOp = [op |-> "none", arg |-> <<>>]
    /\ lastRes = [err |-> NoErr, out |-> <<>>]
    /\ cfg = NewMilvusStore([enabled |-> TRUE, config |-> [model |-> Empty, limit |-> 0, threshold |-> 0]])
    /\ rt = RtIdle
    /\ ctx = RequestContext(FALSE, FALSE)
    /\ extractor = NewMemoryExtractorWithStore(ExtractionConfig(TRUE, <<"http://llm">>, 1), TRUE)
    /\ turnCounts = [NoTurns EXCEPT ![Session1] = StartTurns + MaxCalls]
    /\ \E results \in [CallIds -> DedupResults] :
          calls = [proc |-> [c \in CallIds |->
                                [IdleCall EXCEPT !.pc = "apply", !.session = Session1,
                                                 !.turnCount = StartTurns + c,
                                                 !.facts = <<FactOf(c)>>,
                                                 !.dedup = <<results[c]>>]],
                   log |-> <<>>]
    /\ updating = NoUpdate

NextFallback ==
    \/ \E c \in CallIds : ApplyDedup(c)
    \/ Tick

SpecFallback == InitFallback /\ [][NextFallback]_vars

(***************************************************************************)
(* Properties.                                                             *)
(***************************************************************************)
\* C1: a Retrieve issued with user id B returns no memory that was stored
\* with another user id A, whatever was stored, updated or forgotten before.
UserIsolation ==
    (lastOp.op = "Retrieve" /\ lastRes.err = NoErr) =>
        \A i \in 1..Len(lastRes.out) :
            lastRes.out[i].memory.user_id = lastOp.arg.user_id

\* C8: a write whose memory has an empty user_id (Store, or Update carrying
\* that memory) fails with ErrInvalidUserID.
EmptyUserWriteFails ==
    /\ (lastOp.op = "Store" /\ lastOp.arg.user_id = Empty) =>
            lastRes.err = ErrInvalidUserID
    /\ (lastOp.op = "Update" /\ lastOp.arg.mem.user_id = Empty) =>
            lastRes.err = ErrInvalidUserID

\* C10: when Store(m) has succeeded and the next call is Get(m.id), and the
\* query reaches the database, Get returns a memory with m's user_id, type
\* and content.
StoreThenGet ==
    [][(/\ lastOp.op = "Store" /\ lastRes.err = NoErr
        /\ lastOp'.op = "Get" /\ lastOp'.arg = lastOp.arg.id
        /\ lastRes'.err # Wrap("query failed", RpcError))
       => (/\ lastRes'.err = NoErr
           /\ lastRes'.out.user_id = lastOp.arg.user_id
           /\ lastRes'.out.memory_type = lastOp.arg.memory_type
           /\ lastRes'.out.content = lastOp.arg.content)]_vars

(***************************************************************************)
(* Properties of the retrieval store's retry and of result lists.          *)
(***************************************************************************)
RetryDone == lastOp.op = "RetrieveWithRetry" /\ rt.pc = "done"
SearchFailed(err) == Wrap("Milvus search failed after retries", err)
Cancellation == SearchFailed(Wrap("context cancelled during retry", CtxCanceled))

\* C2: when every search attempt of a Retrieve fails with a transient error
\* (and the context is not cancelled), the search has been called exactly
\* DefaultMaxRetries = 3 times and Retrieve returns the last attempt's error.
TransientRetriedThreeTimes ==
    (/\ RetryDone /\ rt.calls >= 1 /\ ~rt.cancelled
     /\ \A i \in 1..Len(rt.errs) :
            rt.errs[i] \in {ErrConnectionTimeout, ErrServiceUnavailable})
    => (/\ rt.calls = 3
        /\ Len(rt.errs) = 3
        /\ lastRes.err = SearchFailed(rt.errs[3])
        /\ lastRes.out = <<>>)

TransientRetriedThreeTimesWitness ==
    /\ RetryDone /\ ~rt.cancelled /\ rt.calls = 3
    /\ rt.errs = <<ErrConnectionTimeout, ErrConnectionTimeout, ErrServiceUnavailable>>
    /\ lastRes.err = SearchFailed(ErrServiceUnavailable)

\* C3: a search attempt that fails with a non-transient error ends the call
\* at once: it is the last attempt, no wait follows it, and its error is
\* returned; when it is the first attempt, exactly one call was made and no
\* backoff wait occurred.
NonTransientReturnsAtOnce ==
    lastOp.op = "RetrieveWithRetry" =>
        \A k \in 1..Len(rt.errs) :
            rt.errs[k] \in {ErrInvalidSchema, ErrInvalidExpr, CtxCanceled} =>
                /\ rt.pc = "done"
                /\ k = Len(rt.errs)
                /\ rt.calls = k
                /\ Len(rt.waits) = k - 1
                /\ lastRes.err = SearchFailed(rt.errs[k])
                /\ lastRes.out = <<>>

NonTransientReturnsAtOnceWitness ==
    /\ RetryDone /\ rt.calls = 1 /\ rt.waits = <<>>
    /\ rt.errs = <<ErrInvalidSchema>>
    /\ lastRes.err = SearchFailed(ErrInvalidSchema)

\* C4: once the context is cancelled and the retry loop is at a backoff wait,
\* the next step of the call is its return: no further search is made, the
\* error is the cancellation error and no result is returned.
CancelAbortsAtBackoff ==
    [][(rt.pc = "backoff" /\ rt.cancelled) =>
        (/\ rt'.pc = "done"
         /\ rt'.calls = rt.calls
         /\ lastRes'.err = Cancellation
         /\ lastRes'.out = <<>>)]_vars

CancelAbortsAtBackoffWitness ==
    /\ RetryDone /\ rt.cancelled /\ rt.calls = 2
    /\ lastRes.err = Cancellation /\ lastRes.out = <<>>

ScoreAt(i) ==
    IF lastOp.op = "Retrieve" THEN lastRes.out[i].relevance ELSE lastRes.out[i].similarity
CreatedAt(i) ==
    IF lastOp.op = "Retrieve" THEN lastRes.out[i].memory.created_at
    ELSE (CHOOSE r \in rows : r.id = lastRes.out[i].id).created_at
RetrieveReturned ==
    /\ lastRes.err = NoErr
    /\ lastOp.op = "Retrieve" \/ RetryDone

\* C6: a Retrieve returns at most the effective limit of results: the
\* requested limit when positive, else 5.
LimitRespected ==
    RetrieveReturned =>
        Len(lastRes.out) <= (IF lastOp.arg.limit > 0 THEN lastOp.arg.limit ELSE 5)

\* C7: the results of a Retrieve are in descending order of similarity, and
\* of two results with the same similarity the one created earlier is first.
OrderedWithTieBreak ==
    RetrieveReturned =>
        \A i, j \in 1..Len(lastRes.out) :
            i < j => \/ ScoreAt(i) > ScoreAt(j)
                     \/ ScoreAt(i) = ScoreAt(j) /\ CreatedAt(i) <= CreatedAt(j)

\* C9: a Retrieve with an empty user_id fails with ErrInvalidUserID and
\* returns no result (for the retrieval store: when it is enabled and the
\* request has a query, so that the user id is the only thing missing).
EmptyUserRetrieveFails ==
    /\ (lastOp.op = "Retrieve" /\ lastOp.arg.user_id = Empty) =>
          (lastRes.err = ErrInvalidUserID /\ lastRes.out = <<>>)
    /\ (RetryDone /\ cfg.enabled /\ lastOp.arg.query # Empty /\ lastOp.arg.user_id = Empty) =>
          (lastRes.err = ErrInvalidUserID /\ lastRes.out = <<>>)

\* the project and the type of the i-th returned memory (the retrieval store
\* returns no project: the stored memory's is taken)
ProjectAt(i) ==
    IF lastOp.op = "Retrieve" THEN lastRes.out[i].memory.project_id
    ELSE (CHOOSE r \in rows : r.id = lastRes.out[i].id).project_id
TypeAt(i) ==
    IF lastOp.op = "Retrieve" THEN lastRes.out[i].memory.memory_type
    ELSE lastRes.out[i].memory_type

\* C15: every memory a Retrieve returns has the requested project_id when
\* one is requested, and one of the requested types when types are requested.
RetrieveNarrowed ==
    RetrieveReturned =>
        \A i \in 1..Len(lastRes.out) :
            /\ lastOp.arg.project_id # Empty => ProjectAt(i) = lastOp.arg.project_id
            /\ lastOp.arg.types # <<>> =>
                  \E k \in 1..Len(lastOp.arg.types) : TypeAt(i) = lastOp.arg.types[k]

(***************************************************************************)
(* Properties of Forget, Get and Update on stored and on missing ids.      *)
(***************************************************************************)
\* the error of a call whose database or embedding request failed
BackendFailed(err) ==
    Len(err) >= 2 /\ SubSeq(err, Len(err) - 1, Len(err)) = RpcError

\* C11: when Forget(id) has succeeded on a stored memory, a Get(id) made next
\* (and reaching the database) returns ErrNotFound, and a Retrieve made next
\* returns no memory with that id.
ForgottenIsGone ==
    [][(lastOp.op = "Forget" /\ lastRes.err = NoErr /\ lastOp.removed # {}) =>
        /\ (lastOp'.op = "Get" /\ lastOp'.arg = lastOp.arg /\ ~BackendFailed(lastRes'.err))
              => lastRes'.err = ErrNotFound
        /\ (lastOp'.op = "Retrieve" /\ lastRes'.err = NoErr)
              => \A i \in 1..Len(lastRes'.out) : lastRes'.out[i].memory.id # lastOp.arg]_vars

\* C12: a Get, Update (of a memory with a user id) or Forget whose id no
\* stored memory has, and whose database requests do not fail, returns
\* ErrNotFound and leaves the collection as it was.
MissingIdNotFound ==
    [][(/\ now' = now
        /\ lastOp'.op \in {"Get", "Update", "Forget"}
        /\ lastOp'.op = "Update" => lastOp'.arg.mem.user_id # Empty
        /\ (IF lastOp'.op = "Update" THEN lastOp'.arg.id ELSE lastOp'.arg)
               \notin {r.id : r \in rows}
        /\ ~BackendFailed(lastRes'.err))
       => (lastRes'.err = ErrNotFound /\ rows' = rows)]_vars

(***************************************************************************)
(* Properties of ForgetByScope.                                            *)
(***************************************************************************)
\* the memory has the value of every field the scope names
MatchesScope(m, scope) ==
    /\ scope.user_id # Empty => m.user_id = scope.user_id
    /\ scope.project_id # Empty => m.project_id = scope.project_id
    /\ scope.memory_type # Empty => m.memory_type = scope.memory_type
SpecifiesField(scope) ==
    scope.user_id # Empty \/ scope.project_id # Empty \/ scope.memory_type # Empty
ForgetByScopeStep == lastOp'.op = "ForgetByScope" /\ now' = now

ScopeRemovesOnlyMatching ==
    [][ForgetByScopeStep =>
        \A r \in rows \ rows' :
            SpecifiesField(lastOp'.arg) /\ MatchesScope(r, lastOp'.arg)]_vars

(***************************************************************************)
(* Properties of the memory decision filter.                               *)
(***************************************************************************)
\* C16: ShouldSearchMemory returns true exactly when none of the three skip
\* rules applies (a fact-check signal without a personal pronoun in the
\* query, a tool signal, a greeting); with the tool signal set it returns
\* false even for a query that contains a personal pronoun.
ShouldSearchDecision ==
    lastOp.op = "ShouldSearchMemory" =>
        /\ lastRes.out =
              (/\ ~(ctx.FactCheckNeeded /\ ~ContainsPersonalPronoun(lastOp.arg))
               /\ ~ctx.HasToolsForFactCheck
               /\ ~IsGreeting(lastOp.arg))
        /\ ctx.HasToolsForFactCheck => lastRes.out = FALSE

\* a pronoun query skipped because of the tool signal alone
ShouldSearchDecisionWitness ==
    /\ lastOp.op = "ShouldSearchMemory"
    /\ ContainsPersonalPronoun(lastOp.arg) /\ ~IsGreeting(lastOp.arg)
    /\ ctx.HasToolsForFactCheck /\ ctx.FactCheckNeeded
    /\ lastRes.out = FALSE

(***************************************************************************)
(* Properties of the extractor's turn batching.                            *)
(***************************************************************************)
\* a call of ProcessResponse has just returned
ProcessResponseStep == lastOp'.op = "ProcessResponse" /\ now' = now
\* the store is enabled and the extraction is configured
ExtractionConfigured ==
    /\ extractor.store_enabled
    /\ extractor.config.enabled /\ extractor.config.endpoint # Empty

\* C17: a ProcessResponse that counts its turn calls the extraction exactly
\* when the session's count after the increment is a multiple of the batch
\* size B, or of 10 when B is zero or negative; one that does not count the
\* turn (store or extraction not enabled) does not call it.
ExtractsEveryBatch ==
    [][ProcessResponseStep =>
        LET s == lastOp'.arg.session
            B == extractor.config.batch_size
        IN  IF turnCounts' # turnCounts
            THEN lastOp'.extracted <=> (turnCounts'[s] % (IF B > 0 THEN B ELSE 10) = 0)
            ELSE ~lastOp'.extracted]_vars

\* the tenth turn of a session extracts under a batch size that is not positive
ExtractsEveryBatchWitness ==
    /\ lastOp.op = "ProcessResponse" /\ lastOp.extracted
    /\ extractor.config.batch_size <= 0
    /\ turnCounts[lastOp.arg.session] = 10

\* C18 as stated: every ProcessResponse call adds exactly one to the count
\* of its session and leaves the counts of the other sessions alone.
TurnCountedEveryCall ==
    [][ProcessResponseStep =>
        \A s \in Sessions :
            turnCounts'[s] = turnCounts[s] + (IF s = lastOp'.arg.session THEN 1 ELSE 0)]_vars

\* C18, amended: a ProcessResponse call made while the store is enabled and
\* the extraction is configured adds exactly one to the count of its
\* session, whether or not it extracts, and leaves the other sessions'
\* counts alone; a call made otherwise changes no count.
TurnCounted ==
    [][ProcessResponseStep =>
        \A s \in Sessions :
            turnCounts'[s] = turnCounts[s]
                + (IF s = lastOp'.arg.session /\ ExtractionConfigured THEN 1 ELSE 0)]_vars

\* the two sessions have been counted separately, the last call not extracting
TurnCountedWitness ==
    /\ lastOp.op = "ProcessResponse" /\ ~lastOp.extracted
    /\ ExtractionConfigured
    /\ turnCounts[Session1] = 3 /\ turnCounts[Session2] = 1

(***************************************************************************)
(* Properties of the deduplication of an extracted fact.                   *)
(***************************************************************************)
\* a ProcessResponse has extracted facts and deduplicated the first of them
\* against the collection as it was
DeduplicatedStep ==
    ProcessResponseStep /\ lastOp'.extracted /\ lastRes'.out # <<>>
\* the stored memories of the calling user that have the fact's type
OwnMemories(userID, fact) ==
    {r \in rows : r.user_id = userID /\ r.memory_type = fact.type}

\* C19: deduplication chooses update exactly when the best similarity of the
\* fact among the user's stored memories of the fact's type reaches the high
\* threshold, and then on a memory of that best similarity; otherwise create.
DedupByThreshold ==
    [][DeduplicatedStep =>
        LET e == lastRes'.out[1]
            own == OwnMemories(lastOp'.arg.user_id, e.fact)
        IN  /\ e.action \in {"update", "create"}
            /\ e.action = "update" <=>
                  \E r \in own :
                      Sim(e.fact.content, r.content) >= extractor.dedupConfig.high_similarity
            /\ e.action = "update" =>
                  /\ e.existing # <<>>
                  /\ RowOf(e.existing[1]) \in own
                  /\ \A r \in own : Sim(e.fact.content, r.content) <= e.similarity]_vars

\* C20: the memory a fact is matched with, if any, belongs to the calling
\* user and has the fact's type; with no such memory stored the action is
\* create and no existing memory is reported.
DedupScoped ==
    [][DeduplicatedStep =>
        LET e == lastRes'.out[1]
            own == OwnMemories(lastOp'.arg.user_id, e.fact)
        IN  /\ e.existing # <<>> => RowOf(e.existing[1]) \in own
            /\ own = {} => (e.action = "create" /\ e.existing = <<>>)]_vars

(***************************************************************************)
(* Properties of Update.                                                   *)
(***************************************************************************)
\* an Update has just returned; id is the id it was called with
UpdateStep == lastOp'.op = "Update" /\ now' = now
StoredUnder(rs, id) == {r \in rs : r.id = id}

\* C21: when Update(id, m) has succeeded on an id that a stored memory has,
\* exactly one stored memory has that id, it carries m's content, and the
\* number of stored memories is what it was.
UpdateInPlace ==
    [][(/\ UpdateStep /\ lastRes'.err = NoErr
        /\ StoredUnder(rows, lastOp'.arg.id) # {})
       => (/\ Cardinality(StoredUnder(rows', lastOp'.arg.id)) = 1
           /\ \A r \in StoredUnder(rows', lastOp'.arg.id) :
                  r.content = lastOp'.arg.mem.content
           /\ Cardinality(rows') = Cardinality(rows))]_vars

\* C30: when Update(id, m) returns an error on an id that a stored memory
\* has, the memories stored under that id are what they were before the call.
FailedUpdateKeepsMemory ==
    [][(/\ UpdateStep /\ lastRes'.err # NoErr
        /\ StoredUnder(rows, lastOp'.arg.id) # {})
       => StoredUnder(rows', lastOp'.arg.id) = StoredUnder(rows, lastOp'.arg.id)]_vars

(***************************************************************************)
(* Properties of the extraction's failure handling.                        *)
(***************************************************************************)
\* the end of the JSON value that starts at token i of t (0 when there is
\* none), by the grammar of JSON: a scalar, an object, or an array of values
JSONScalars == {"null", "true", "false", "0", "1"}
RECURSIVE ValueEnd(_, _)
RECURSIVE ElementsEnd(_, _)
ValueEnd(t, i) ==
    IF i > Len(t) THEN 0
    ELSE IF t[i] \in JSONScalars \cup DOMAIN JSONObjects THEN i + 1
    ELSE IF t[i] = "["
    THEN IF i + 1 <= Len(t) /\ t[i + 1] = "]" THEN i + 2 ELSE ElementsEnd(t, i + 1)
    ELSE 0
ElementsEnd(t, i) ==
    LET e == ValueEnd(t, i)
    IN  IF e = 0 \/ e > Len(t) THEN 0
        ELSE IF t[e] = "]" THEN e + 1
        ELSE IF t[e] = "," THEN ElementsEnd(t, e + 1)
        ELSE 0
\* the text is one JSON value, white space aside
IsJSONText(toks) ==
    LET t == SelectSeq(toks, LAMBDA tok : tok \notin WhiteSpace)
    IN  ValueEnd(t, 1) = Len(t) + 1

\* the reply, trimmed and without its code-fence wrapper, is not valid JSON
InvalidJSONReply(reply) ==
    reply.outcome = "ok" /\ ~IsJSONText(cleanJSONResponse(TrimSpace(reply.content)))

\* C22: when the extraction LLM call fails (transport error, status other
\* than 200, body that does not parse, no choice, timeout) or the reply is
\* not valid JSON, ExtractFacts returns no fact and no error.
ExtractFactsDegrades ==
    (/\ lastOp.op = "ExtractFacts"
     /\ lastOp.arg.reply.outcome # "ok" \/ InvalidJSONReply(lastOp.arg.reply))
    => (lastRes.err = NoErr /\ lastRes.out = <<>>)

\* an enabled extractor asked about a conversation, the LLM answering an
\* array with a trailing comma
ExtractFactsDegradesWitness ==
    /\ lastOp.op = "ExtractFacts"
    /\ extractor.config.enabled /\ extractor.config.endpoint # Empty
    /\ lastOp.arg.messages # <<>>
    /\ lastOp.arg.reply = Reply("ok", <<"[", "{type:semantic,content:c1}", ",", "]">>)
    /\ lastRes.err = NoErr /\ lastRes.out = <<>>

\* C23: ProcessResponse returns nil, whatever the LLM call, the
\* deduplication and the store writes came to.
ProcessResponseNeverFails ==
    lastOp.op = "ProcessResponse" => lastRes.err = NoErr

\* a ProcessResponse that extracted a fact whose store write failed
ProcessResponseNeverFailsWitness ==
    /\ lastOp.op = "ProcessResponse" /\ lastOp.extracted
    /\ lastRes.err = NoErr
    /\ \E i \in 1..Len(lastRes.out) : lastRes.out[i].err # NoErr

(***************************************************************************)
(* Properties of the memory retrieval inside the request path.             *)
(***************************************************************************)
HandledRequest == lastOp.op = "handleRequestBody"

\* the memory setting in force for the request: the decision's plugin wins
\* over the global switch, and a store must be there and enabled
MemoryDisabled(router) ==
    \/ router.plugin = "disabled"
    \/ router.plugin = "none" /\ ~router.memory_enabled
    \/ ~router.store_enabled

\* no memory of the user reaches the request threshold for the search query
NothingPassesThreshold(a) ==
    \A r \in rows : r.user_id = a.user_id =>
        Sim(BuildSearchQuery(a.query, a.rewrite), r.content) < RequestSimilarityThreshold

DerivedSession(op, res) ==
    /\ op.op = "extractMemoryInfo"
    /\ ~op.arg.response_api
    /\ res.err = NoErr

\* the first message with the user role, if there is one
FirstUserMessage(messages) ==
    LET user == {i \in 1..Len(messages) : messages[i].role = "user"}
    IN  IF user = {} THEN <<>>
        ELSE <<messages[CHOOSE i \in user : \A j \in user : i <= j]>>

UniqueIds == \A r1 \in rows, r2 \in rows : r1.id = r2.id => r1 = r2

\* C27: every memory of the store, as the store gives it back, has
\* created_at <= updated_at <= accessed_at.
TimestampsOrdered ==
    \A r \in rows :
        LET m == MemOfRow(r)
        IN  m.created_at <= m.updated_at /\ m.updated_at <= m.accessed_at

(***************************************************************************)
(* Properties of concurrent ProcessResponse calls.                         *)
(***************************************************************************)
\* the call has read its turn count
Observed(c) == calls.proc[c].turnCount > 0

\* the call has incremented the counter
Incremented(c) == At(c, "incremented") \/ Observed(c)

\* the call has asked the LLM for facts
Fired(c) == \E i \in 1..Len(calls.log) : calls.log[i] = <<c, "llm">>

AllDone == \A c \in CallIds : At(c, "done") /\ Observed(c)

\* C28: concurrent calls for one session lose no increment and read the
\* counts start+1 .. start+N each once, and once they are done exactly one
\* of them has fired the extraction for each multiple of the batch size.
TurnsAtomic ==
    LET observed == {calls.proc[c].turnCount : c \in {d \in CallIds : Observed(d)}}
    IN  /\ turnCounts[Session1] = StartTurns + Cardinality({c \in CallIds : Incremented(c)})
        /\ \A c \in CallIds, d \in CallIds :
              Observed(c) /\ Observed(d) /\ c # d
                  => calls.proc[c].turnCount # calls.proc[d].turnCount
        /\ observed \subseteq (StartTurns + 1)..turnCounts[Session1]
        /\ \A c \in CallIds :
              Fired(c) => calls.proc[c].turnCount % BatchSize(extractor.config) = 0
        /\ AllDone =>
              /\ observed = (StartTurns + 1)..(StartTurns + MaxCalls)
              /\ \A k \in (StartTurns + 1)..(StartTurns + MaxCalls) :
                    k % BatchSize(extractor.config) = 0
                        => Cardinality({c \in CallIds :
                                           Fired(c) /\ calls.proc[c].turnCount = k}) = 1

\* three calls that ran together are done, the first having counted after the
\* third, and two of them fired at batch size 2
TurnsAtomicWitness ==
    /\ AllDone
    /\ BatchSize(extractor.config) = 2
    /\ Cardinality({c \in CallIds : Fired(c)}) = 2
    /\ turnCounts[Session1] = StartTurns + MaxCalls
    /\ calls.proc[1].turnCount > calls.proc[3].turnCount

\* the place of the call's event in the log, 0 when it has not happened
LogIndex(c, event) ==
    IF \E i \in 1..Len(calls.log) : calls.log[i] = <<c, event>>
    THEN CHOOSE i \in 1..Len(calls.log) : calls.log[i] = <<c, event>>
    ELSE 0

\* the call counted a batch turn, so it fires the extraction
FiresExtraction(c) ==
    Observed(c) /\ calls.proc[c].turnCount % BatchSize(extractor.config) = 0

\* C29: of two calls of a session that fire the extraction, the one with the
\* smaller turn count calls the LLM first and writes to the store first.
ExtractionsOrdered ==
    \A x \in CallIds, y \in CallIds :
        (/\ FiresExtraction(x)
         /\ FiresExtraction(y)
         /\ calls.proc[x].turnCount < calls.proc[y].turnCount)
        => /\ Fired(y) => Fired(x) /\ LogIndex(x, "llm") < LogIndex(y, "llm")
           /\ LogIndex(y, "store") > 0 /\ LogIndex(x, "store") > 0
                  => LogIndex(x, "store") < LogIndex(y, "store")

(***************************************************************************)
(* Properties of Update next to concurrent readers.                        *)
(***************************************************************************)
\* a Get of the id being updated has returned while the Update of a stored
\* memory was between its two halves
GetDuringUpdate ==
    /\ updating.pc = "store"
    /\ updating.existed
    /\ lastOp.op = "Get"
    /\ lastOp.arg = updating.id

\* C31: a Get that runs while Update(id, m) on a stored memory is in progress
\* finds a memory under id, the old one or the new one.
UpdateNeverHidesMemory ==
    (GetDuringUpdate /\ lastRes.err # Wrap("query failed", RpcError))
        => lastRes.err = NoErr /\ lastRes.out.id = updating.id

(***************************************************************************)
(* Properties of concurrent store loops.                                   *)
(***************************************************************************)
\* the memories of user a that hold the fact the calls extracted
HoldingFact ==
    {r \in rows : r.user_id = UserA /\ r.memory_type = Semantic /\ r.content = Content1}

\* C32: concurrent extractions of one user that produced the same fact leave
\* one memory with that content: never two, and one once they are done.
OneMemoryPerFact ==
    /\ Cardinality(HoldingFact) <= 1
    /\ (\A c \in CallIds : At(c, "done")) => Cardinality(HoldingFact) = 1

(***************************************************************************)
(* Tenancy of ForgetByScope.                                               *)
(***************************************************************************)
\* C33: every memory a ForgetByScope call removes has the scope's user_id;
\* a scope without user_id therefore removes nothing.
ScopeKeepsOtherUsers ==
    [][ForgetByScopeStep
       => \A r \in rows \ rows' : r.user_id = lastOp'.arg.user_id]_vars

\* a ProcessResponse whose context was cancelled while it extracted
CancelledStep ==
    ProcessResponseStep /\ lastOp'.extracted /\ lastOp'.arg.cancelled_at >= 0
\* the user's stored memories holding a fact
Persisted(rs, userID, fact) ==
    \E r \in rs : r.user_id = userID /\ r.memory_type = fact.type
                    /\ r.content = fact.content

\* C34: a ProcessResponse cancelled during the LLM call extracts no fact and
\* leaves the store alone; one cancelled while it stores the facts leaves in
\* the store every fact of the batch that it had stored before the
\* cancellation.
CancelKeepsPersisted ==
    [][CancelledStep
       => /\ lastOp'.arg.cancelled_at = 0 => lastRes'.out = <<>> /\ rows' = rows
          /\ \A i \in 1 .. Len(lastRes'.out) :
                i < lastOp'.arg.cancelled_at /\ lastRes'.out[i].err = NoErr
                => Persisted(rows', lastOp'.arg.user_id, lastRes'.out[i].fact)]_vars

\* the cancellation of the LLM call alone
CancelledExtractionIsEmpty ==
    [][CancelledStep /\ lastOp'.arg.cancelled_at = 0
       => lastRes'.out = <<>> /\ rows' = rows]_vars

\* a memory as a reader sees it: id, owner, type and content
SameMemory(a, m) ==
    /\ a.id = m.id /\ a.user_id = m.user_id
    /\ a.memory_type = m.memory_type /\ a.content = m.content
\* the retrievals that match m in a collection: m passes the filter and the
\* threshold, and the filter selects no more memories than are asked for
MatchingRetrievals(rs, m) ==
    {opts \in RetrieveInputs :
        /\ RowOf(m) \in Matching(RetrieveFilter(opts), rs)
        /\ Sim(opts.query, m.content) >= RetrieveThreshold(opts)
        /\ Cardinality(Matching(RetrieveFilter(opts), rs)) <= RetrieveTopK(opts)}
\* Store(m) has just returned without error
Stored == lastOp.op = "Store" /\ lastRes.err = NoErr

\* C35: once Store(m) has returned without error, a Get(m.id) issued next
\* returns m, and a Retrieve issued next that matches m and reaches the
\* database has m among its results.
GetObservesStore ==
    Stored => \A shape \in QueryEmptyShapes :
                \A r \in GetOp(rows, lastOp.arg.id, "none", shape) :
                    r.err = NoErr /\ SameMemory(r.out, lastOp.arg)
RetrieveObservesStore ==
    Stored => \A opts \in MatchingRetrievals(rows, lastOp.arg) :
                \A r \in RetrieveOp(rows, opts, "none") :
                    \E i \in 1 .. Len(r.out) : SameMemory(r.out[i].memory, lastOp.arg)
StoreIsVisible == GetObservesStore /\ RetrieveObservesStore

\* the facts a ProcessResponse call has extracted
ExtractedFacts ==
    ExtractFacts(extractor.config,
                 RecentBatch(lastOp'.arg.history, BatchSize(extractor.config)),
                 lastOp'.arg.reply).facts

\* C36: a ProcessResponse that has extracted facts, and whose context is not
\* cancelled during the LLM call, calls storeWithDeduplication once for every
\* fact, in the order of extraction, whether or not an earlier call failed;
\* a fact created without error after a failure is in the store.
StoresEveryFact ==
    [][ProcessResponseStep /\ lastOp'.extracted /\ lastOp'.arg.cancelled_at # 0
       => /\ Len(lastRes'.out) = Len(ExtractedFacts)
          /\ \A i \in 1 .. Len(lastRes'.out) :
                /\ lastRes'.out[i].fact = ExtractedFacts[i]
                /\ (i = Len(lastRes'.out) /\ lastRes'.out[i].err = NoErr)
                   => Persisted(rows', lastOp'.arg.user_id, ExtractedFacts[i])]_vars
\* the first fact's store has failed and the second fact was stored
StoresEveryFactWitness ==
    /\ lastOp.op = "ProcessResponse" /\ lastOp.extracted
    /\ Len(lastRes.out) = 2
    /\ lastRes.out[1].err # NoErr /\ lastRes.out[2].err = NoErr
    /\ lastRes.out[1].fact # lastRes.out[2].fact
    /\ ~Persisted(rows, lastOp.arg.user_id, lastRes.out[1].fact)
    /\ Persisted(rows, lastOp.arg.user_id, lastRes.out[2].fact)

\* max(4 * limit, 20), the number of candidates the specification asks for
FourfoldTopK(limit) == IF 4 * limit > 20 THEN 4 * limit ELSE 20
\* the hits at or above a threshold, in their order
RECURSIVE AboveThreshold(_, _)
AboveThreshold(hits, threshold) ==
    IF hits = <<>> THEN <<>>
    ELSE (IF Head(hits).score >= threshold THEN <<Head(hits)>> ELSE <<>>)
         \o AboveThreshold(Tail(hits), threshold)
\* the effective limit of the full store's Retrieve
FullStoreLimit(opts) == IF opts.limit <= 0 THEN MilvusTopK ELSE opts.limit

\* the retrieval store's search is issued with max(4 * L, 20) candidates
RetrievalStoreTopK ==
    (lastOp.op = "RetrieveWithRetry" /\ rt.calls > 0) => rt.topK = FourfoldTopK(rt.limit)
\* the retrieval store returns the candidates at or above the threshold,
\* trimmed to L
RetrievalStoreTrims ==
    (RetryDone /\ lastRes.err = NoErr /\ rt.calls > 0) =>
        \E hits \in MilvusSearch(rows, rt.filter, rt.opts.query, FourfoldTopK(rt.limit)) :
            LET passing == AboveThreshold(hits, rt.threshold)
            IN  /\ Len(lastRes.out) = Min(Len(passing), rt.limit)
                /\ \A i \in 1 .. Len(lastRes.out) :
                      /\ lastRes.out[i].id = passing[i].row.id
                      /\ lastRes.out[i].similarity = passing[i].score
\* the full store's search is issued with max(4 * L, 20) candidates
FullStoreTopK ==
    (lastOp.op = "Retrieve" /\ lastOp.arg.user_id # Empty
        /\ lastRes.err # Wrap("failed to generate query embedding", RpcError))
    => RetrieveTopK(lastOp.arg) = FourfoldTopK(FullStoreLimit(lastOp.arg))

\* C37: every Retrieve that reaches the database searches with
\* max(4 * L, 20) candidates, L being its effective limit, and returns the
\* candidates at or above the threshold, trimmed to L.
SearchesFourfold == RetrievalStoreTopK /\ RetrievalStoreTrims /\ FullStoreTopK

\* the milliseconds of a list of waits
RECURSIVE TotalWait(_)
TotalWait(waits) == IF waits = <<>> THEN 0 ELSE Head(waits) + TotalWait(Tail(waits))
\* a search of the retrieval store that has failed transiently three times
FailedEveryAttempt ==
    /\ RetryDone /\ rt.calls = DefaultMaxRetries
    /\ \A i \in 1 .. Len(rt.errs) : isTransientError(rt.errs[i])

\* C38 as stated: a search that fails transiently on every attempt has
\* waited 100, 200 and 400 ms, one wait after each attempt, 700 ms in all.
BackoffAfterEveryAttempt ==
    FailedEveryAttempt => rt.waits = <<100, 200, 400>> /\ TotalWait(rt.waits) = 700

\* C38, amended: the wait after failed attempt i is 100 * 2^i ms for i = 0
\* and 1, and no wait follows the third attempt: a call waits at most twice,
\* and one that fails transiently on every attempt has waited 100 and 200 ms,
\* 300 ms in all.
BackoffBetweenAttempts ==
    lastOp.op = "RetrieveWithRetry" =>
        /\ Len(rt.waits) <= DefaultMaxRetries - 1
        /\ \A i \in 1 .. Len(rt.waits) : rt.waits[i] = 100 * (2 ^ (i - 1))
        /\ Len(rt.waits) <= rt.calls
        /\ rt.calls = DefaultMaxRetries => Len(rt.waits) = DefaultMaxRetries - 1
        /\ FailedEveryAttempt => rt.waits = <<100, 200>> /\ TotalWait(rt.waits) = 300
BackoffBetweenAttemptsWitness ==
    FailedEveryAttempt /\ ~rt.cancelled /\ TotalWait(rt.waits) = 300

\* the last k messages of a history, or all of it when it has at most k
Trailing(history, k) ==
    IF Len(history) <= k THEN history
    ELSE [i \in 1 .. k |-> history[Len(history) - k + i]]

\* C39: a ProcessResponse that calls the extraction hands it the trailing
\* B + 5 messages of the history in their order, B being the effective batch
\* size, and the whole history when it has at most B + 5 messages.
BatchIsTrailing ==
    [][ProcessResponseStep /\ lastOp'.extracted
       => lastOp'.batch = Trailing(lastOp'.arg.history, BatchSize(extractor.config) + 5)]_vars
\* with batch size 2, an extraction over the last seven of eight messages
BatchIsTrailingWitness ==
    /\ lastOp.op = "ProcessResponse" /\ lastOp.extracted
    /\ Len(lastOp.arg.history) = 8 /\ extractor.config.batch_size = 2
    /\ lastOp.batch = <<lastOp.arg.history[2]>> \o Tail(Tail(lastOp.arg.history))

\* storeWithDeduplication has acted on an update that names no memory
FallbackStep ==
    /\ lastOp'.op = "storeWithDeduplication" /\ calls' # calls
    /\ lastOp'.arg.result.action = "update" /\ lastOp'.arg.result.existing = <<>>

\* C40: on a deduplication result of action update without an existing
\* memory, storeWithDeduplication creates: it hands Store one new memory with
\* the fact's type and content, the user's id, source "conversation" and
\* importance 0.5, that memory is the one entity added to the collection,
\* and nothing is deleted or re-inserted by an Update.
UpdateWithoutMemoryCreates ==
    [][FallbackStep
       => /\ lastRes'.err = NoErr /\ lastRes'.out = "create"
          /\ lastRes'.stored.source = <<"conversation">>
          /\ lastRes'.stored.importance = 50
          /\ lastRes'.stored.content = lastOp'.arg.fact.content
          /\ lastRes'.stored.memory_type = lastOp'.arg.fact.type
          /\ lastRes'.stored.user_id = UserA
          /\ rows \subseteq rows'
          /\ rows' \ rows = {RowOf(lastRes'.stored)}]_vars
UpdateWithoutMemoryCreatesWitness ==
    /\ lastOp.op = "storeWithDeduplication"
    /\ lastOp.arg.result.action = "update" /\ lastOp.arg.result.existing = <<>>
    /\ lastRes.out = "create"
    /\ \E r \in rows : r.content = lastOp.arg.fact.content /\ r.importance = 50

====
